---- MODULE Spec2Model ----
(***************************************************************************)
(* FW Tools: the Row Store (DataManager), the Batch Assigner               *)
(* (BatchManager), the Undo/Redo Stack and the Predicate Engine with its   *)
(* Filtered View Cache (FilterEngine), as a state machine.                 *)
(*                                                                         *)
(* JavaScript values are modelled as follows.  A cell is a record          *)
(* [t, n, s]: Num(n) is the number n, Str(s) the string s, UNDEFINED the   *)
(* value of a key a row does not have.  A row is a function from its keys  *)
(* (column names and "_rowIndex") to cells.  Array indices are 0-based as  *)
(* in the code; the array arr is the sequence whose element i is           *)
(* arr[i + 1].  null and '' are both written "" where the code only tests  *)
(* truthiness (findColumn's result).                                       *)
(***************************************************************************)
EXTENDS Integers, Sequences, FiniteSets, TLC

VARIABLES
    data,             \* DataManager.data
    headers,          \* DataManager.headers
    originalData,     \* DataManager.originalData
    undoStack,        \* DataManager.undoStack
    redoStack,        \* DataManager.redoStack
    smsBatches,       \* DataManager.smsBatches
    emailBatches,     \* DataManager.emailBatches
    config,           \* ConfigManager.config
    conditions,       \* FilterEngine.conditions
    searchQuery,      \* FilterEngine.searchQuery
    filteredData,     \* FilterEngine.filteredData
    filteredIndices,  \* FilterEngine.filteredIndices
    presets,          \* FilterEngine.presets
    clock,            \* Date.now()
    last              \* the last operation and what it returned

dmVars == <<data, headers, originalData, undoStack, redoStack, smsBatches, emailBatches>>
feVars == <<conditions, searchQuery, filteredData, filteredIndices, presets, clock>>
vars == <<dmVars, config, feVars, last>>

-----------------------------------------------------------------------------
(* Bounds of the model *)

\* rows of a loaded dataset
NumRows == 3
\* snapshots on the undo stack
MaxHist == 2
\* conditions addCondition may bring the Filter Set to
MaxConds == 1
\* the latest value of Date.now(), in ms since the page was opened
MaxClock == 0
\* snapshots on the undo stack while a filter is at work
MaxFilterHist == 1
\* edits made beyond the depth of the undo stack
Overrun == 2

-----------------------------------------------------------------------------
(* Strings, character by character *)

Upper == "ABCDEFGHIJKLMNOPQRSTUVWXYZ"
Lower == "abcdefghijklmnopqrstuvwxyz"
Digits == "0123456789"

CharAt(s, i) == SubSeq(s, i, i)

\* the characters of a string, as a set
CharsOf(s) == {CharAt(s, i) : i \in 1..Len(s)}

\* 1-based position of the character c in s, 0 when absent
IndexIn(c, s) ==
    IF c \in CharsOf(s) THEN CHOOSE i \in 1..Len(s) : CharAt(s, i) = c ELSE 0

UpperChars == CharsOf(Upper)
LowerChars == CharsOf(Lower)
DigitChars == CharsOf(Digits)

\* the lower-case letter of each upper-case letter, and conversely
LowerOf == [c \in UpperChars |-> CharAt(Lower, IndexIn(c, Upper))]
UpperOf == [c \in LowerChars |-> CharAt(Upper, IndexIn(c, Lower))]

\* the value of each decimal digit
DigitOf == [c \in DigitChars |-> IndexIn(c, Digits) - 1]

\* String.prototype.charCodeAt for the characters of the model's strings
CodeOf == [c \in UpperChars \cup LowerChars \cup DigitChars \cup {"_", "-", " "} |->
            IF c \in UpperChars THEN 64 + IndexIn(c, Upper)
            ELSE IF c \in LowerChars THEN 96 + IndexIn(c, Lower)
            ELSE IF c \in DigitChars THEN 47 + IndexIn(c, Digits)
            ELSE IF c = "_" THEN 95
            ELSE IF c = "-" THEN 45
            ELSE 32]

charCode(c) == CodeOf[c]

RECURSIVE toLowerCase(_)
toLowerCase(s) ==
    IF s = "" THEN ""
    ELSE LET c == CharAt(s, 1)
         IN (IF c \in UpperChars THEN LowerOf[c] ELSE c) \o toLowerCase(SubSeq(s, 2, Len(s)))

RECURSIVE toUpperCase(_)
toUpperCase(s) ==
    IF s = "" THEN ""
    ELSE LET c == CharAt(s, 1)
         IN (IF c \in LowerChars THEN UpperOf[c] ELSE c) \o toUpperCase(SubSeq(s, 2, Len(s)))

RECURSIVE trimStart(_)
trimStart(s) == IF s # "" /\ CharAt(s, 1) = " " THEN trimStart(SubSeq(s, 2, Len(s))) ELSE s

RECURSIVE trimEnd(_)
trimEnd(s) == IF s # "" /\ CharAt(s, Len(s)) = " " THEN trimEnd(SubSeq(s, 1, Len(s) - 1)) ELSE s

trim(s) == trimEnd(trimStart(s))

\* /^[A-Z]+$/i.test(s)
IsLetters(s) ==
    /\ s # ""
    /\ \A i \in 1..Len(s) : CharAt(s, i) \in UpperChars \/ CharAt(s, i) \in LowerChars

RECURSIVE stripSeparators(_)
\* s.replace(/[_\s]/g, '')
stripSeparators(s) ==
    IF s = "" THEN ""
    ELSE LET c == CharAt(s, 1)
         IN (IF c = "_" \/ c = " " THEN "" ELSE c) \o stripSeparators(SubSeq(s, 2, Len(s)))

\* String.prototype.includes
includes(s, q) == \E i \in 1..(Len(s) - Len(q) + 1) : SubSeq(s, i, i + Len(q) - 1) = q

RECURSIVE NatStringOf(_)
NatStringOf(n) ==
    IF n < 10 THEN CharAt(Digits, n + 1)
    ELSE NatStringOf(n \div 10) \o CharAt(Digits, (n % 10) + 1)

-----------------------------------------------------------------------------
(* Cells *)

Num(n) == [t |-> "num", n |-> n, s |-> ""]
Str(s) == [t |-> "str", n |-> 0, s |-> s]
UNDEFINED == [t |-> "undefined", n |-> 0, s |-> ""]
NaN == [t |-> "nan", n |-> 0, s |-> ""]
EMPTY == Str("")

\* row[col]
Cell(row, col) == IF col \in DOMAIN row THEN row[col] ELSE UNDEFINED

\* JavaScript truthiness of a cell
Truthy(v) == (v.t = "num" /\ v.n # 0) \/ (v.t = "str" /\ v.s # "")

\* String(v)
StringOf(v) ==
    IF v.t = "str" THEN v.s
    ELSE IF v.t = "num" THEN (IF v.n < 0 THEN "-" \o NatStringOf(-v.n) ELSE NatStringOf(v.n))
    ELSE IF v.t = "nan" THEN "NaN"
    ELSE "undefined"

RECURSIVE digitsValue(_, _)
\* the number written by the leading decimal digits of s, after acc
digitsValue(s, acc) ==
    IF s = "" \/ CharAt(s, 1) \notin DigitChars THEN acc
    ELSE digitsValue(SubSeq(s, 2, Len(s)), acc * 10 + DigitOf[CharAt(s, 1)])

\* parseInt(v): leading white space, an optional sign, then decimal digits
parseInt(v) ==
    LET s0 == trimStart(StringOf(v))
        neg == s0 # "" /\ CharAt(s0, 1) = "-"
        s1 == IF neg THEN SubSeq(s0, 2, Len(s0)) ELSE s0
    IN IF s1 = "" \/ CharAt(s1, 1) \notin DigitChars THEN NaN
       ELSE Num(IF neg THEN -digitsValue(s1, 0) ELSE digitsValue(s1, 0))

-----------------------------------------------------------------------------
(* ConfigManager: column utilities *)

RECURSIVE colValue(_, _)
\* numbers are doubles in the code; the model stops accumulating above 10^6,
\* which is beyond every header count, so that no 32-bit product overflows
colValue(col, n) ==
    IF col = "" \/ n > 1000000 THEN n
    ELSE colValue(SubSeq(col, 2, Len(col)), n * 26 + (charCode(CharAt(col, 1)) - 64))

\* colToIndex without `- 1`: A is 1
colToIndexFromOne(col) == colValue(toUpperCase(trim(col)), 0)

colToIndex(col) == colValue(toUpperCase(trim(col)), 0) - 1

RECURSIVE indexToColFrom(_, _)
indexToColFrom(n, s) ==
    IF n > 0 THEN indexToColFrom((n - 1) \div 26, CharAt(Upper, ((n - 1) % 26) + 1) \o s)
    ELSE s

indexToCol(index) == indexToColFrom(index + 1, "")

-----------------------------------------------------------------------------
(* DataManager *)

\* the DataManager object as one value
DM == [data |-> data, headers |-> headers, originalData |-> originalData,
       undoStack |-> undoStack, redoStack |-> redoStack,
       smsBatches |-> smsBatches, emailBatches |-> emailBatches]

maxUndoSteps == 50

\* arr[i] of a JavaScript array of strings, '' when out of range (undefined)
At(arr, i) == IF i >= 0 /\ i < Len(arr) THEN arr[i + 1] ELSE ""

\* arr.includes(x)
Has(arr, x) == \E i \in 1..Len(arr) : arr[i] = x

RECURSIVE firstLoose(_, _)
\* the for-loop of findColumn: the first header equal to the reference up to
\* case, or up to case, underscores and spaces
firstLoose(hs, colRef) ==
    IF hs = <<>> THEN ""
    ELSE IF toLowerCase(hs[1]) = toLowerCase(colRef) THEN hs[1]
    ELSE IF stripSeparators(toLowerCase(hs[1])) = stripSeparators(toLowerCase(colRef)) THEN hs[1]
    ELSE firstLoose(Tail(hs), colRef)

findColumn(hs, colRef) ==
    IF colRef = "" THEN ""
    ELSE IF IsLetters(colRef) /\ colToIndex(colRef) >= 0 /\ colToIndex(colRef) < Len(hs)
        THEN hs[colToIndex(colRef) + 1]
    ELSE IF Has(hs, colRef) THEN colRef
    ELSE firstLoose(hs, colRef)

\* the batch numbers detectBatches reads in one column of the rows
batchesIn(rows, col) ==
    IF col = "" THEN {}
    ELSE {parseInt(Cell(rows[i], col)).n : i \in
            {j \in 1..Len(rows) : /\ Truthy(Cell(rows[j], col))
                                  /\ parseInt(Cell(rows[j], col)).t = "num"
                                  /\ parseInt(Cell(rows[j], col)).n > 0}}

detectBatches(dm, cfg) ==
    [dm EXCEPT !.smsBatches = batchesIn(dm.data, findColumn(dm.headers, cfg.BATCH_COL)),
               !.emailBatches = batchesIn(dm.data, findColumn(dm.headers, cfg.EMAIL_BATCH_COL))]

clear(dm) ==
    [data |-> <<>>, headers |-> <<>>, originalData |-> <<>>, undoStack |-> <<>>,
     redoStack |-> <<>>, smsBatches |-> {}, emailBatches |-> {}]

\* setData without `this.undoStack = []; this.redoStack = []`
setDataKeepingHistory(dm, cfg, hs, rows) ==
    detectBatches([dm EXCEPT !.headers = hs, !.data = rows, !.originalData = rows], cfg)

setData(dm, cfg, hs, rows) ==
    [detectBatches([dm EXCEPT !.headers = hs, !.data = rows, !.originalData = rows], cfg)
        EXCEPT !.undoStack = <<>>, !.redoStack = <<>>]

\* saveUndoState without `this.redoStack = []`
saveUndoStateKeepingRedo(dm) ==
    LET pushed == Append(dm.undoStack, dm.data)
    IN [dm EXCEPT !.undoStack = IF Len(pushed) > maxUndoSteps THEN Tail(pushed) ELSE pushed]

\* saveUndoState dropping the newest snapshot (pop) of a full stack in place of the oldest (shift)
saveUndoStateDroppingNewest(dm) ==
    LET pushed == Append(dm.undoStack, dm.data)
    IN [dm EXCEPT !.undoStack = IF Len(pushed) > maxUndoSteps
                                THEN SubSeq(pushed, 1, maxUndoSteps) ELSE pushed,
                  !.redoStack = <<>>]

\* saveUndoState keeping the redo stack when its push fills the undo stack
saveUndoStateKeepingRedoAtCap(dm) ==
    LET pushed == Append(dm.undoStack, dm.data)
    IN [dm EXCEPT !.undoStack = IF Len(pushed) > maxUndoSteps THEN Tail(pushed) ELSE pushed,
                  !.redoStack = IF Len(pushed) >= maxUndoSteps THEN @ ELSE <<>>]

\* saveUndoState pushing the snapshot twice
saveUndoStatePushingTwice(dm) ==
    LET pushed == Append(Append(dm.undoStack, dm.data), dm.data)
    IN [dm EXCEPT !.undoStack = IF Len(pushed) > maxUndoSteps THEN Tail(pushed) ELSE pushed,
                  !.redoStack = <<>>]

saveUndoState(dm) ==
    LET pushed == Append(dm.undoStack, dm.data)
    IN [dm EXCEPT !.undoStack = IF Len(pushed) > maxUndoSteps THEN Tail(pushed) ELSE pushed,
                  !.redoStack = <<>>]

\* row[col] = value
SetCell(row, col, value) == [k \in (DOMAIN row) \cup {col} |-> IF k = col THEN value ELSE row[k]]

updateCell(dm, rowIndex, column, value) ==
    LET col == IF findColumn(dm.headers, column) # "" THEN findColumn(dm.headers, column)
               ELSE column
    IN IF rowIndex >= 0 /\ rowIndex < Len(dm.data) /\ col \in DOMAIN dm.data[rowIndex + 1]
       THEN [ok |-> TRUE,
             dm |-> [saveUndoState(dm) EXCEPT !.data[rowIndex + 1] = SetCell(@, col, value)]]
       ELSE [ok |-> FALSE, dm |-> dm]

RECURSIVE applyEntries(_, _, _, _)
\* Object.entries(rowUpdates).forEach(...) on one row of updateRows
applyEntries(rows, hs, rowIndex, entries) ==
    IF entries = <<>> THEN rows
    ELSE LET col == Head(entries)[1]
             value == Head(entries)[2]
             column == IF findColumn(hs, col) # "" THEN findColumn(hs, col) ELSE col
         IN applyEntries(
                IF Has(hs, column) THEN [rows EXCEPT ![rowIndex + 1] = SetCell(@, column, value)]
                ELSE rows,
                hs, rowIndex, Tail(entries))

RECURSIVE applyUpdates(_, _, _)
\* updates.forEach(...) of updateRows
applyUpdates(rows, hs, updates) ==
    IF updates = <<>> THEN rows
    ELSE LET u == Head(updates)
         IN applyUpdates(
                IF u.rowIndex >= 0 /\ u.rowIndex < Len(rows)
                THEN applyEntries(rows, hs, u.rowIndex, u.updates)
                ELSE rows,
                hs, Tail(updates))

updateRows(dm, updates) ==
    [saveUndoState(dm) EXCEPT !.data = applyUpdates(dm.data, dm.headers, updates)]

\* undo saving the rows for redo before it looks at the undo stack
undoSavingFirst(dm, cfg) ==
    IF Len(dm.undoStack) = 0
    THEN [ok |-> FALSE, dm |-> [dm EXCEPT !.redoStack = Append(@, dm.data)]]
    ELSE [ok |-> TRUE,
          dm |-> detectBatches(
                    [dm EXCEPT !.redoStack = Append(@, dm.data),
                               !.data = dm.undoStack[Len(dm.undoStack)],
                               !.undoStack = SubSeq(@, 1, Len(@) - 1)], cfg)]

undo(dm, cfg) ==
    IF Len(dm.undoStack) = 0 THEN [ok |-> FALSE, dm |-> dm]
    ELSE [ok |-> TRUE,
          dm |-> detectBatches(
                    [dm EXCEPT !.redoStack = Append(@, dm.data),
                               !.data = dm.undoStack[Len(dm.undoStack)],
                               !.undoStack = SubSeq(@, 1, Len(@) - 1)], cfg)]

\* redo taking the oldest entry of the redo stack (shift) in place of the newest (pop)
redoOldest(dm, cfg) ==
    IF Len(dm.redoStack) = 0 THEN [ok |-> FALSE, dm |-> dm]
    ELSE [ok |-> TRUE,
          dm |-> detectBatches(
                    [dm EXCEPT !.undoStack = Append(@, dm.data),
                               !.data = dm.redoStack[1],
                               !.redoStack = Tail(@)], cfg)]

redo(dm, cfg) ==
    IF Len(dm.redoStack) = 0 THEN [ok |-> FALSE, dm |-> dm]
    ELSE [ok |-> TRUE,
          dm |-> detectBatches(
                    [dm EXCEPT !.undoStack = Append(@, dm.data),
                               !.data = dm.redoStack[Len(dm.redoStack)],
                               !.redoStack = SubSeq(@, 1, Len(@) - 1)], cfg)]

\* Math.max(...set)
Max(S) == CHOOSE m \in S : \A x \in S : x <= m

getNextSmsBatch(dm) == IF dm.smsBatches = {} THEN 1 ELSE Max(dm.smsBatches) + 1

\* the next number taken as the size of the set plus one
getNextEmailBatchSize(dm) == Cardinality(dm.emailBatches) + 1

getNextEmailBatch(dm) == IF dm.emailBatches = {} THEN 1 ELSE Max(dm.emailBatches) + 1

resetToOriginal(dm, cfg) ==
    IF Len(dm.originalData) > 0
    THEN [ok |-> TRUE,
          dm |-> detectBatches([saveUndoState(dm) EXCEPT !.data = dm.originalData], cfg)]
    ELSE [ok |-> FALSE, dm |-> dm]

\* headers.push(name); data.forEach(row => row[name] = defaultValue)
pushColumn(dm, name, defaultValue) ==
    [dm EXCEPT !.headers = Append(@, name),
               !.data = [i \in 1..Len(dm.data) |-> SetCell(dm.data[i], name, defaultValue)]]

addColumn(dm, name, defaultValue) ==
    IF Has(dm.headers, name) THEN [ok |-> FALSE, dm |-> dm]
    ELSE [ok |-> TRUE, dm |-> pushColumn(saveUndoState(dm), name, defaultValue)]

ensureColumn(dm, name) ==
    IF ~Has(dm.headers, name) THEN pushColumn(dm, name, EMPTY) ELSE dm

requiredColumns ==
    <<"Content_SMS", "SMS_Batch", "Content_Email", "Email_Batch", "Remind_SMS_Batch",
      "Remind_Email_Batch", "Response_Status">>

RECURSIVE ensureColumns(_, _)
\* requiredColumns.forEach(...) of ensureRequiredColumns: a column is there when a
\* header equals its name up to case, or up to case, underscores and spaces
ensureColumns(dm, names) ==
    IF names = <<>> THEN dm
    ELSE ensureColumns(
            IF \E i \in 1..Len(dm.headers) :
                    \/ toLowerCase(dm.headers[i]) = toLowerCase(Head(names))
                    \/ stripSeparators(toLowerCase(dm.headers[i]))
                            = stripSeparators(toLowerCase(Head(names)))
            THEN dm
            ELSE pushColumn(dm, Head(names), EMPTY),
            Tail(names))

ensureRequiredColumns(dm) == ensureColumns(dm, requiredColumns)

\* jsonData[headerRowIndex].map((h, i) => String(h || `Column ${indexToCol(i)}`).trim())
headerNames(cells) ==
    [i \in 1..Len(cells) |->
        trim(IF Truthy(cells[i]) THEN StringOf(cells[i]) ELSE "Column " \o indexToCol(i - 1))]

\* the row object importFile builds of one row of the sheet: a later column
\* of the same name overwrites an earlier one, a missing cell is ''
rowObject(hs, cells, rowIndex) ==
    [k \in {"_rowIndex"} \cup {hs[i] : i \in 1..Len(hs)} |->
        IF \E i \in 1..Len(hs) : hs[i] = k
        THEN IF Max({i \in 1..Len(hs) : hs[i] = k}) <= Len(cells)
             THEN cells[Max({i \in 1..Len(hs) : hs[i] = k})]
             ELSE EMPTY
        ELSE Num(rowIndex)]

\* importFile once the file is read, jsonData being what XLSX.utils.sheet_to_json
\* gives for it (an array of rows, each an array of cells) and headerRow 1
importFile(dm, cfg, jsonData) ==
    IF jsonData = <<>> THEN [ok |-> FALSE, dm |-> dm]
    ELSE LET rows == [r \in 1..(Len(jsonData) - 1) |->
                        rowObject(headerNames(jsonData[1]), jsonData[r + 1], r - 1)]
         IN [ok |-> TRUE,
             dm |-> [ensureRequiredColumns(
                        detectBatches([dm EXCEPT !.headers = headerNames(jsonData[1]),
                                                 !.data = rows,
                                                 !.originalData = rows], cfg))
                     EXCEPT !.undoStack = <<>>, !.redoStack = <<>>]]

-----------------------------------------------------------------------------
(* BatchManager *)

\* the filteredIndices argument: null, or an array of row indices
NullIndices == [isNull |-> TRUE, list |-> <<>>]
Indices(l) == [isNull |-> FALSE, list |-> l]

\* the candidate list ignored: every row, in Row Store order
indicesToProcessAll(rows, indices) == [i \in 1..Len(rows) |-> i - 1]

\* filteredIndices || data.map((_, i) => i)
indicesToProcess(rows, indices) ==
    IF indices.isNull THEN [i \in 1..Len(rows) |-> i - 1] ELSE indices.list

\* the check left out: no row counts as marked
hasBatchIgnored(row, col) == FALSE

\* row[col] !== '' && row[col] !== null && row[col] !== undefined
hasBatch(row, col) == Cell(row, col) # EMPTY /\ Cell(row, col) # UNDEFINED

\* a loop's outcome; threw: data[idx] was undefined and reading its cell threw
LoopResult(rows, picked, threw) == [rows |-> rows, picked |-> picked, threw |-> threw]

RECURSIVE smsLoop(_, _, _, _, _)
\* the for-loop of markSmsBatch; m holds the locals it reads
smsLoop(rows, idxs, picked, limit, m) ==
    IF idxs = <<>> \/ picked >= limit THEN LoopResult(rows, picked, FALSE)
    ELSE LET idx == Head(idxs)
         IN IF idx < 0 \/ idx >= Len(rows) THEN LoopResult(rows, picked, TRUE)
            ELSE LET row == rows[idx + 1]
                     sourceValue == IF m.sourceCol # "" /\ Truthy(Cell(row, m.sourceCol))
                                    THEN StringOf(Cell(row, m.sourceCol)) ELSE ""
                     content == Str(m.template \o sourceValue)
                 IN IF m.overwrite \/ ~hasBatch(row, m.batchCol)
                    THEN smsLoop([rows EXCEPT ![idx + 1] =
                                     SetCell(SetCell(row, m.contentCol, content),
                                             m.batchCol, Num(m.newBatch))],
                                 Tail(idxs), picked + 1, limit, m)
                    ELSE smsLoop(rows, Tail(idxs), picked, limit, m)

\* headers[ConfigManager.colToIndex(ref)] || fallback
headerOr(hs, ref, fallback) ==
    IF At(hs, colToIndex(ref)) # "" THEN At(hs, colToIndex(ref)) ELSE fallback

\* findColumn(ref) || fallback
columnOr(hs, ref, fallback) ==
    IF findColumn(hs, ref) # "" THEN findColumn(hs, ref) ELSE fallback

Failure(dm) == [success |-> FALSE, threw |-> FALSE, picked |-> 0, newBatch |-> 0, dm |-> dm]

markSmsBatch(dm, cfg, limit, indices) ==
    IF Len(dm.data) = 0 THEN Failure(dm)
    ELSE LET sourceCol == findColumn(dm.headers, cfg.SOURCE_COL)
             contentCol == findColumn(dm.headers, cfg.CONTENT_COL)
             batchCol == findColumn(dm.headers, cfg.BATCH_COL)
             dm1 == IF contentCol = ""
                    THEN ensureColumn(dm, headerOr(dm.headers, cfg.CONTENT_COL, "SMS_Content"))
                    ELSE dm
             dm2 == IF batchCol = ""
                    THEN ensureColumn(dm1, headerOr(dm1.headers, cfg.BATCH_COL, "SMS_Batch"))
                    ELSE dm1
             actualContentCol == columnOr(dm2.headers, cfg.CONTENT_COL, "SMS_Content")
             actualBatchCol == columnOr(dm2.headers, cfg.BATCH_COL, "SMS_Batch")
             newBatch == getNextSmsBatch(dm2)
             dm3 == saveUndoState(dm2)
             r == smsLoop(dm3.data, indicesToProcess(dm2.data, indices), 0, limit,
                          [sourceCol |-> sourceCol, contentCol |-> actualContentCol,
                           batchCol |-> actualBatchCol, template |-> cfg.TEMPLATE_TEXT,
                           overwrite |-> cfg.OVERWRITE_BATCH, newBatch |-> newBatch])
         IN [success |-> ~r.threw, threw |-> r.threw, picked |-> r.picked, newBatch |-> newBatch,
             dm |-> [dm3 EXCEPT !.data = r.rows,
                                !.smsBatches = IF ~r.threw /\ r.picked > 0
                                               THEN @ \cup {newBatch} ELSE @]]

RECURSIVE emailLoop(_, _, _, _, _)
\* the for-loop of markEmailBatch
emailLoop(rows, idxs, picked, limit, m) ==
    IF idxs = <<>> \/ picked >= limit THEN LoopResult(rows, picked, FALSE)
    ELSE LET idx == Head(idxs)
         IN IF idx < 0 \/ idx >= Len(rows) THEN LoopResult(rows, picked, TRUE)
            ELSE IF m.overwrite \/ ~hasBatch(rows[idx + 1], m.batchCol)
                 THEN emailLoop([rows EXCEPT ![idx + 1] = SetCell(@, m.batchCol, Num(m.newBatch))],
                                Tail(idxs), picked + 1, limit, m)
                 ELSE emailLoop(rows, Tail(idxs), picked, limit, m)

\* markEmailBatch adding the number to the known batches whatever it picked
markEmailBatchAlwaysKnown(dm, cfg, limit, indices) ==
    IF Len(dm.data) = 0 THEN Failure(dm)
    ELSE LET emailBatchCol == findColumn(dm.headers, cfg.EMAIL_BATCH_COL)
             dm1 == IF emailBatchCol = ""
                    THEN ensureColumn(dm, headerOr(dm.headers, cfg.EMAIL_BATCH_COL, "Email_Batch"))
                    ELSE dm
             actualBatchCol == columnOr(dm1.headers, cfg.EMAIL_BATCH_COL, "Email_Batch")
             newBatch == getNextEmailBatch(dm1)
             dm2 == saveUndoState(dm1)
             r == emailLoop(dm2.data, indicesToProcess(dm1.data, indices), 0, limit,
                            [batchCol |-> actualBatchCol, overwrite |-> cfg.OVERWRITE_BATCH,
                             newBatch |-> newBatch])
         IN [success |-> ~r.threw, threw |-> r.threw, picked |-> r.picked, newBatch |-> newBatch,
             dm |-> [dm2 EXCEPT !.data = r.rows,
                                !.emailBatches = IF ~r.threw THEN @ \cup {newBatch} ELSE @]]

markEmailBatch(dm, cfg, limit, indices) ==
    IF Len(dm.data) = 0 THEN Failure(dm)
    ELSE LET emailBatchCol == findColumn(dm.headers, cfg.EMAIL_BATCH_COL)
             dm1 == IF emailBatchCol = ""
                    THEN ensureColumn(dm, headerOr(dm.headers, cfg.EMAIL_BATCH_COL, "Email_Batch"))
                    ELSE dm
             actualBatchCol == columnOr(dm1.headers, cfg.EMAIL_BATCH_COL, "Email_Batch")
             newBatch == getNextEmailBatch(dm1)
             dm2 == saveUndoState(dm1)
             r == emailLoop(dm2.data, indicesToProcess(dm1.data, indices), 0, limit,
                            [batchCol |-> actualBatchCol, overwrite |-> cfg.OVERWRITE_BATCH,
                             newBatch |-> newBatch])
         IN [success |-> ~r.threw, threw |-> r.threw, picked |-> r.picked, newBatch |-> newBatch,
             dm |-> [dm2 EXCEPT !.data = r.rows,
                                !.emailBatches = IF ~r.threw /\ r.picked > 0
                                                 THEN @ \cup {newBatch} ELSE @]]

RECURSIVE maxBatchIn(_, _, _)
\* data.forEach(row => { val = parseInt(row[col]); if (!isNaN(val) && val > maxBatch) ... })
maxBatchIn(rows, col, maxBatch) ==
    IF rows = <<>> THEN maxBatch
    ELSE LET val == parseInt(Cell(Head(rows), col))
         IN maxBatchIn(Tail(rows), col,
                       IF val.t = "num" /\ val.n > maxBatch THEN val.n ELSE maxBatch)

RECURSIVE remindLoop(_, _, _, _, _)
\* the for-loop of markRemindSmsBatch and of markRemindEmailBatch
remindLoop(rows, idxs, picked, limit, m) ==
    IF idxs = <<>> \/ picked >= limit THEN LoopResult(rows, picked, FALSE)
    ELSE LET idx == Head(idxs)
         IN IF idx < 0 \/ idx >= Len(rows) THEN LoopResult(rows, picked, TRUE)
            ELSE IF ~Truthy(Cell(rows[idx + 1], m.batchCol)) /\ Cell(rows[idx + 1], m.batchCol) # Num(0)
                 THEN remindLoop([rows EXCEPT ![idx + 1] = SetCell(@, m.batchCol, Num(m.newBatch))],
                                 Tail(idxs), picked + 1, limit, m)
                 ELSE remindLoop(rows, Tail(idxs), picked, limit, m)

\* the body shared, line for line, by the two remind functions
markRemind(dm, batchColName, fallback, limit, indices) ==
    IF Len(dm.data) = 0 THEN Failure(dm)
    ELSE LET dm1 == IF findColumn(dm.headers, batchColName) = ""
                    THEN ensureColumn(dm, headerOr(dm.headers, batchColName, fallback))
                    ELSE dm
             actualBatchCol == columnOr(dm1.headers, batchColName, fallback)
             newBatch == maxBatchIn(dm1.data, actualBatchCol, 0) + 1
             dm2 == saveUndoState(dm1)
             r == remindLoop(dm2.data, indicesToProcess(dm1.data, indices), 0, limit,
                             [batchCol |-> actualBatchCol, newBatch |-> newBatch])
         IN [success |-> ~r.threw, threw |-> r.threw, picked |-> r.picked, newBatch |-> newBatch,
             dm |-> [dm2 EXCEPT !.data = r.rows]]

markRemindSmsBatch(dm, cfg, limit, indices) ==
    markRemind(dm, cfg.REMIND_SMS_BATCH_COL, "Remind_SMS_Batch", limit, indices)

markRemindEmailBatch(dm, cfg, limit, indices) ==
    markRemind(dm, cfg.REMIND_EMAIL_BATCH_COL, "Remind_Email_Batch", limit, indices)

DeleteFailure(dm) == [success |-> FALSE, deleted |-> 0, dm |-> dm]

\* deleteSmsBatch without `if (contentCol) row[contentCol] = ''`
deleteSmsBatchKeepingContent(dm, cfg, batchNumber) ==
    LET batchCol == findColumn(dm.headers, cfg.BATCH_COL)
        hit == {i \in 1..Len(dm.data) : Cell(dm.data[i], batchCol) = Num(batchNumber)}
    IN IF batchCol = "" THEN DeleteFailure(dm)
       ELSE [success |-> TRUE, deleted |-> Cardinality(hit),
             dm |-> [saveUndoState(dm) EXCEPT
                        !.data = [i \in 1..Len(dm.data) |->
                                    IF i \in hit THEN SetCell(dm.data[i], batchCol, EMPTY)
                                    ELSE dm.data[i]],
                        !.smsBatches = @ \ {batchNumber}]]

deleteSmsBatch(dm, cfg, batchNumber) ==
    LET batchCol == findColumn(dm.headers, cfg.BATCH_COL)
        contentCol == findColumn(dm.headers, cfg.CONTENT_COL)
        hit == {i \in 1..Len(dm.data) : Cell(dm.data[i], batchCol) = Num(batchNumber)}
    IN IF batchCol = "" THEN DeleteFailure(dm)
       ELSE [success |-> TRUE, deleted |-> Cardinality(hit),
             dm |-> [saveUndoState(dm) EXCEPT
                        !.data = [i \in 1..Len(dm.data) |->
                                    IF i \in hit
                                    THEN LET cleared == SetCell(dm.data[i], batchCol, EMPTY)
                                         IN IF contentCol # "" THEN SetCell(cleared, contentCol, EMPTY)
                                            ELSE cleared
                                    ELSE dm.data[i]],
                        !.smsBatches = @ \ {batchNumber}]]

deleteEmailBatch(dm, cfg, batchNumber) ==
    LET batchCol == findColumn(dm.headers, cfg.EMAIL_BATCH_COL)
        hit == {i \in 1..Len(dm.data) : Cell(dm.data[i], batchCol) = Num(batchNumber)}
    IN IF batchCol = "" THEN DeleteFailure(dm)
       ELSE [success |-> TRUE, deleted |-> Cardinality(hit),
             dm |-> [saveUndoState(dm) EXCEPT
                        !.data = [i \in 1..Len(dm.data) |->
                                    IF i \in hit THEN SetCell(dm.data[i], batchCol, EMPTY)
                                    ELSE dm.data[i]],
                        !.emailBatches = @ \ {batchNumber}]]

-----------------------------------------------------------------------------
(* FilterEngine *)

\* a condition's value: a string, or an array of strings
Text(s) == [isArray |-> FALSE, s |-> s, list |-> <<>>]
List(l) == [isArray |-> TRUE, s |-> "", list |-> l]

RECURSIVE join(_)
\* Array.prototype.join(',')
join(l) == IF l = <<>> THEN "" ELSE IF Len(l) = 1 THEN l[1] ELSE l[1] \o "," \o join(Tail(l))

\* String(value)
valueString(value) == IF value.isArray THEN join(value.list) ELSE value.s

RECURSIVE split(_, _)
\* s.split(','), cur being the piece read so far
split(s, cur) ==
    IF s = "" THEN <<cur>>
    ELSE IF CharAt(s, 1) = "," THEN <<cur>> \o split(SubSeq(s, 2, Len(s)), "")
    ELSE split(SubSeq(s, 2, Len(s)), cur \o CharAt(s, 1))

RECURSIVE countDigits(_)
\* the number of leading decimal digits of s
countDigits(s) ==
    IF s = "" \/ CharAt(s, 1) \notin DigitChars THEN 0
    ELSE 1 + countDigits(SubSeq(s, 2, Len(s)))

RECURSIVE thousandths(_, _)
\* the leading decimal digits of frac as a fraction, in thousandths: the first
\* digit weighs weight, the next a tenth of it (digits beyond the third are dropped)
thousandths(frac, weight) ==
    IF weight = 0 \/ frac = "" \/ CharAt(frac, 1) \notin DigitChars THEN 0
    ELSE DigitOf[CharAt(frac, 1)] * weight + thousandths(SubSeq(frac, 2, Len(frac)), weight \div 10)

\* the number read from s, which starts with k decimal digits, times sign
floatOf(s, k, sign) ==
    LET frac == IF k < Len(s) /\ CharAt(s, k + 1) = "." THEN SubSeq(s, k + 2, Len(s)) ELSE ""
    IN IF k = 0 /\ countDigits(frac) = 0 THEN NaN
       ELSE Num(sign * (digitsValue(s, 0) * 1000 + thousandths(frac, 100)))

\* parseFloat of a string, in thousandths (exponents and Infinity do not occur
\* in the model's strings)
parseFloat(str) ==
    LET s0 == trimStart(str)
    IN IF s0 # "" /\ CharAt(s0, 1) = "-"
       THEN floatOf(SubSeq(s0, 2, Len(s0)), countDigits(SubSeq(s0, 2, Len(s0))), -1)
       ELSE floatOf(s0, countDigits(s0), 1)

\* the characters a pattern of the model may hold besides ^ and $
IsLiteral(s) ==
    \A i \in 1..Len(s) : CharAt(s, i) \in DOMAIN CodeOf

\* new RegExp(pattern, 'i').test(str) for the patterns of the model: a literal,
\* optionally anchored by ^ and $; a pattern holding "(" or "[" does not compile
regexTest(pattern, str) ==
    LET front == pattern # "" /\ CharAt(pattern, 1) = "^"
        p1 == IF front THEN SubSeq(pattern, 2, Len(pattern)) ELSE pattern
        back == p1 # "" /\ CharAt(p1, Len(p1)) = "$"
        lit == toLowerCase(IF back THEN SubSeq(p1, 1, Len(p1) - 1) ELSE p1)
        subject == toLowerCase(str)
    IN IF ~IsLiteral(lit) THEN [threw |-> TRUE, result |-> FALSE]
       ELSE [threw |-> FALSE,
             result |-> IF front /\ back THEN subject = lit
                        ELSE IF front THEN Len(subject) >= Len(lit)
                                           /\ SubSeq(subject, 1, Len(lit)) = lit
                        ELSE IF back THEN Len(subject) >= Len(lit)
                                          /\ SubSeq(subject, Len(subject) - Len(lit) + 1, Len(subject)) = lit
                        ELSE includes(subject, lit)]

\* Array.isArray(value) ? value : String(value).split(',').map(v => v.trim().toLowerCase())
listOf(value) ==
    IF value.isArray THEN value.list
    ELSE LET parts == split(value.s, "")
         IN [i \in 1..Len(parts) |-> toLowerCase(trim(parts[i]))]

\* !value
Falsy(value) == ~value.isArray /\ value.s = ""

\* the switch of matchCondition, on the cell and the value and what the method
\* derives from them: their lower-cased strings and their numbers
matchOperator(operator, cellValue, value, cellStr, valueStr, cellNum, valueNum) ==
    LET numeric == cellNum.t = "num" /\ valueNum.t = "num"
    IN IF cellValue = UNDEFINED THEN operator = "isEmpty"
       ELSE CASE operator = "equals" -> cellStr = valueStr
              [] operator = "notEquals" -> cellStr # valueStr
              [] operator = "contains" -> includes(cellStr, valueStr)
              [] operator = "notContains" -> ~includes(cellStr, valueStr)
              [] operator = "startsWith" ->
                    /\ Len(cellStr) >= Len(valueStr)
                    /\ SubSeq(cellStr, 1, Len(valueStr)) = valueStr
              [] operator = "endsWith" ->
                    /\ Len(cellStr) >= Len(valueStr)
                    /\ SubSeq(cellStr, Len(cellStr) - Len(valueStr) + 1, Len(cellStr)) = valueStr
              [] operator = "isEmpty" -> cellStr \in {"", "null", "undefined"}
              [] operator = "isNotEmpty" -> cellStr \notin {"", "null", "undefined"}
              [] operator = "greaterThan" -> numeric /\ cellNum.n > valueNum.n
              [] operator = "lessThan" -> numeric /\ cellNum.n < valueNum.n
              [] operator = "greaterOrEqual" -> numeric /\ cellNum.n >= valueNum.n
              [] operator = "lessOrEqual" -> numeric /\ cellNum.n <= valueNum.n
              [] operator = "regex" -> regexTest(valueString(value), cellStr).result
              [] operator = "inList" ->
                    /\ ~Falsy(value)
                    /\ \E i \in 1..Len(listOf(value)) : toLowerCase(listOf(value)[i]) = cellStr
              [] operator = "notInList" ->
                    \/ Falsy(value)
                    \/ ~\E i \in 1..Len(listOf(value)) : toLowerCase(listOf(value)[i]) = cellStr
              [] OTHER -> TRUE

\* matchCondition without the branch for a null or undefined cell
matchConditionOnStrings(row, condition) ==
    matchOperator(condition.operator, Str(StringOf(Cell(row, condition.column))), condition.value,
                  toLowerCase(StringOf(Cell(row, condition.column))),
                  toLowerCase(valueString(condition.value)),
                  parseFloat(StringOf(Cell(row, condition.column))),
                  parseFloat(valueString(condition.value)))

\* matchCondition without toLowerCase() on the cell's string
matchConditionCaseSensitive(row, condition) ==
    matchOperator(condition.operator, Cell(row, condition.column), condition.value,
                  StringOf(Cell(row, condition.column)),
                  toLowerCase(valueString(condition.value)),
                  parseFloat(StringOf(Cell(row, condition.column))),
                  parseFloat(valueString(condition.value)))

matchCondition(row, condition) ==
    matchOperator(condition.operator, Cell(row, condition.column), condition.value,
                  toLowerCase(StringOf(Cell(row, condition.column))),
                  toLowerCase(valueString(condition.value)),
                  parseFloat(StringOf(Cell(row, condition.column))),
                  parseFloat(valueString(condition.value)))

matchesAllConditions(row, conds) ==
    \A i \in 1..Len(conds) : matchCondition(row, conds[i])

matchesSearch(row, query) ==
    \/ query = ""
    \/ \E k \in DOMAIN row : row[k] # UNDEFINED /\ includes(toLowerCase(StringOf(row[k])), query)

\* arr.filter(keep) for the indices i (1-based) of arr in Keep
RECURSIVE filterSeq(_, _, _)
filterSeq(arr, Keep, i) ==
    IF i > Len(arr) THEN <<>>
    ELSE (IF i \in Keep THEN <<arr[i]>> ELSE <<>>) \o filterSeq(arr, Keep, i + 1)

\* the FilterEngine object as one value
FE == [conditions |-> conditions, searchQuery |-> searchQuery, filteredData |-> filteredData,
       filteredIndices |-> filteredIndices, presets |-> presets]

\* filteredData is null, or an array of row objects.  The objects of the array
\* are rows of DataManager.data (live: pos gives the place of each in it) until
\* DataManager.data is replaced by other objects; from then on they are the
\* rows as they were (rows).
NullData == [isNull |-> TRUE, live |-> FALSE, pos |-> <<>>, rows |-> <<>>]
LiveData(pos) == [isNull |-> FALSE, live |-> TRUE, pos |-> pos, rows |-> <<>>]

\* the row objects of filteredData, by value
rowsOf(fd, rows) == IF fd.live THEN [k \in 1..Len(fd.pos) |-> rows[fd.pos[k] + 1]] ELSE fd.rows

\* filteredData once DataManager.data, then rows, is replaced by new objects
detach(fd, rows) ==
    IF fd.isNull \/ ~fd.live THEN fd
    ELSE [isNull |-> FALSE, live |-> FALSE, pos |-> <<>>, rows |-> rowsOf(fd, rows)]

\* invalidateCache leaving the cache as it is
keepCache(fe) == fe

invalidateCache(fe) == [fe EXCEPT !.filteredData = NullData, !.filteredIndices = NullIndices]

\* the indices (0-based) apply computes when the cache is empty
matching(fe, rows) ==
    LET activeConditions == filterSeq(fe.conditions,
                                {i \in 1..Len(fe.conditions) :
                                    fe.conditions[i].active /\ fe.conditions[i].column # ""}, 1)
        Keep == {i \in 1..Len(rows) :
                    /\ ~(fe.searchQuery # "" /\ ~matchesSearch(rows[i], fe.searchQuery))
                    /\ (Len(activeConditions) = 0 \/ matchesAllConditions(rows[i], activeConditions))}
    IN filterSeq([i \in 1..Len(rows) |-> i - 1], Keep, 1)

\* what apply stores and returns once it has computed the indices found
computed(fe, rows, found) ==
    [data |-> [k \in 1..Len(found) |-> rows[found[k] + 1]], indices |-> found,
     fe |-> [fe EXCEPT !.filteredData = LiveData(found), !.filteredIndices = Indices(found)]]

apply(fe, rows) ==
    IF ~fe.filteredData.isNull
    THEN [data |-> rowsOf(fe.filteredData, rows), indices |-> fe.filteredIndices.list, fe |-> fe]
    ELSE computed(fe, rows, matching(fe, rows))

hasActiveFilters(fe) ==
    \/ \E i \in 1..Len(fe.conditions) : fe.conditions[i].active /\ fe.conditions[i].column # ""
    \/ Len(fe.searchQuery) > 0

addCondition(fe, condition) == [fe EXCEPT !.conditions = Append(@, condition)]

\* conditions.find(c => c.id === id): the place of the first condition with the id, 0 if none
findCondition(conds, id) ==
    IF \E i \in 1..Len(conds) : conds[i].id = id
    THEN CHOOSE i \in 1..Len(conds) : conds[i].id = id /\ \A j \in 1..(i - 1) : conds[j].id # id
    ELSE 0

\* Object.assign(condition, {[field]: v}); v is a condition value, a string or a boolean
assign(condition, field, v) ==
    [f \in DOMAIN condition |-> IF f = field THEN v ELSE condition[f]]

updateCondition(fe, id, field, v) ==
    IF findCondition(fe.conditions, id) # 0
    THEN invalidateCache([fe EXCEPT !.conditions[findCondition(fe.conditions, id)] = assign(@, field, v)])
    ELSE fe

removeCondition(fe, id) ==
    invalidateCache([fe EXCEPT !.conditions =
        filterSeq(@, {i \in 1..Len(fe.conditions) : fe.conditions[i].id # id}, 1)])

clearConditions(fe) == invalidateCache([fe EXCEPT !.conditions = <<>>])

setSearchQuery(fe, query) == invalidateCache([fe EXCEPT !.searchQuery = trim(toLowerCase(query))])

-----------------------------------------------------------------------------
(* index.js: shuffleData *)

RECURSIVE fisherYates(_, _, _)
\* for (i = n - 1; i > 0; i--) swap data[i] and data[j], j = js[i] being the
\* value of Math.floor(Math.random() * (i + 1))
fisherYates(rows, i, js) ==
    IF i <= 0 THEN rows
    ELSE fisherYates([rows EXCEPT ![i + 1] = rows[js[i] + 1], ![js[i] + 1] = rows[i + 1]],
                     i - 1, js)

\* two of the sequences of values Math.random can give the loop on n rows:
\* j = 0 at every step, and j = i - 1 at every step
Draws(n) == {[i \in 1..(n - 1) |-> 0], [i \in 1..(n - 1) |-> i - 1]}

\* shuffleData without the reassignment of _rowIndex
shuffleDataKeepingMarkers(dm, js) ==
    IF Len(dm.data) = 0 THEN [ok |-> FALSE, dm |-> dm]
    ELSE [ok |-> TRUE,
          dm |-> [saveUndoState(dm) EXCEPT
                    !.data = fisherYates(dm.data, Len(dm.data) - 1, js)]]

shuffleData(dm, js) ==
    IF Len(dm.data) = 0 THEN [ok |-> FALSE, dm |-> dm]
    ELSE LET shuffled == fisherYates(dm.data, Len(dm.data) - 1, js)
         IN [ok |-> TRUE,
             dm |-> [saveUndoState(dm) EXCEPT
                        !.data = [i \in 1..Len(shuffled) |->
                                    SetCell(shuffled[i], "_rowIndex", Num(i - 1))]]]

-----------------------------------------------------------------------------
(* The datasets and configurations of the model *)

StatusValues == <<"Complete", "Partial", "complete">>

\* a dataset as the import collaborator delivers it: every header a key of
\* every row, _rowIndex the row's position
BaseRow(i) ==
    [k \in {"_rowIndex", "Link", "Status"} |->
        IF k = "_rowIndex" THEN Num(i)
        ELSE IF k = "Link" THEN Str("u" \o NatStringOf(i))
        ELSE Str(StatusValues[(i % Len(StatusValues)) + 1])]

BatchHeaders == <<"SMS_Content", "SMS_Batch", "Email_Batch", "Remind_SMS_Batch", "Remind_Email_Batch">>

FullRow(i) ==
    [k \in {"_rowIndex", "Link", "Status"} \cup {BatchHeaders[j] : j \in 1..Len(BatchHeaders)} |->
        IF k \in {"_rowIndex", "Link", "Status"} THEN BaseRow(i)[k] ELSE EMPTY]

\* a sheet without the batch columns
BareData == [headers |-> <<"Link", "Status">>, rows |-> [i \in 1..NumRows |-> BaseRow(i - 1)]]

\* a sheet with the batch columns, nothing marked
FullData == [headers |-> <<"Link", "Status">> \o BatchHeaders,
             rows |-> [i \in 1..NumRows |-> FullRow(i - 1)]]

\* a saved project: its first row was marked as SMS batch 1 and email batch 2
MarkedData ==
    [headers |-> FullData.headers,
     rows |-> [i \in 1..NumRows |->
                IF i = 1 THEN [FullRow(0) EXCEPT !["SMS_Batch"] = Num(1),
                                                 !["SMS_Content"] = Str("Link: u0"),
                                                 !["Email_Batch"] = Num(2)]
                ELSE FullRow(i - 1)]]

Datasets == {BareData, FullData, MarkedData}

\* the datasets that hold every configured column when loaded
CompleteDatasets == {FullData, MarkedData}

\* columns configured by header name
NameConfig ==
    [SOURCE_COL |-> "Link", CONTENT_COL |-> "SMS_Content", BATCH_COL |-> "SMS_Batch",
     EMAIL_BATCH_COL |-> "Email_Batch", REMIND_SMS_BATCH_COL |-> "Remind_SMS_Batch",
     REMIND_EMAIL_BATCH_COL |-> "Remind_Email_Batch", OVERWRITE_BATCH |-> FALSE,
     TEMPLATE_TEXT |-> "Link: "]

\* columns configured by letter, as ConfigManager.DEFAULTS does, with the
\* letters of the model's sheets
LetterConfig ==
    [SOURCE_COL |-> "A", CONTENT_COL |-> "C", BATCH_COL |-> "D",
     EMAIL_BATCH_COL |-> "E", REMIND_SMS_BATCH_COL |-> "F",
     REMIND_EMAIL_BATCH_COL |-> "G", OVERWRITE_BATCH |-> FALSE,
     TEMPLATE_TEXT |-> "Link: "]

Configs == {NameConfig, LetterConfig}

-----------------------------------------------------------------------------
(* FilterEngine.loadPreset, UIRenderer.renderDataTable *)

\* an id: Date.now() (ms, frac = 0) or Date.now() + Math.random() (frac in tenths)
Id(ms, frac) == [ms |-> ms, frac |-> frac]

\* the condition addCondition() makes when called without argument at time now
defaultCondition(now) ==
    [id |-> Id(now, 0), column |-> "", operator |-> "equals", value |-> Text(""), active |-> TRUE]

\* now: the value of Date.now(); fracs[k]: the value of Math.random() for the k-th condition
loadPreset(fe, hs, key, now, fracs) ==
    IF key \notin DOMAIN fe.presets THEN [ok |-> FALSE, fe |-> fe]
    ELSE LET stored == fe.presets[key]
             columnName(c) == IF colToIndex(c.column) >= 0 /\ colToIndex(c.column) < Len(hs)
                              THEN hs[colToIndex(c.column) + 1] ELSE c.column
         IN [ok |-> TRUE,
             fe |-> invalidateCache([fe EXCEPT !.conditions =
                        [k \in 1..Len(stored) |->
                            [id |-> Id(now, fracs[k]), column |-> columnName(stored[k]),
                             operator |-> stored[k].operator, value |-> stored[k].value,
                             active |-> TRUE]]])]

\* what renderDataTable does to the FilterEngine: it calls apply when a filter is active
renderDataTable(fe, rows) == IF hasActiveFilters(fe) THEN apply(fe, rows).fe ELSE fe

-----------------------------------------------------------------------------
(* The state machine *)

NoResult == [data |-> <<>>, indices |-> <<>>]

\* what `last` records of an operation
Did(op, ok) ==
    [op |-> op, ok |-> ok, picked |-> 0, newBatch |-> 0, streak |-> 0, after |-> "",
     saved |-> <<>>, redoBefore |-> Len(redoStack), limit |-> 0, indices |-> NullIndices,
     result |-> NoResult]

SetDM(dm) ==
    /\ data' = dm.data
    /\ headers' = dm.headers
    /\ originalData' = dm.originalData
    /\ undoStack' = dm.undoStack
    /\ redoStack' = dm.redoStack
    /\ smsBatches' = dm.smsBatches
    /\ emailBatches' = dm.emailBatches

SetFE(fe) ==
    /\ conditions' = fe.conditions
    /\ searchQuery' = fe.searchQuery
    /\ filteredData' = fe.filteredData
    /\ filteredIndices' = fe.filteredIndices
    /\ presets' = fe.presets

\* room for one more snapshot within the model's bound
Room == Len(undoStack) < MaxHist

\* the FilterEngine once DataManager.data is an array of other objects: the
\* cached row objects stay as they were
Detached == [FE EXCEPT !.filteredData = detach(@, data)]

\* DataManager.data becomes an array of other objects
Replaced == SetFE(Detached) /\ UNCHANGED <<clock, config>>

\* DataManager.data is changed in place: the cached row objects are rows of it still
InPlace == UNCHANGED <<feVars, config>>

getDefaultPresets(cfg) ==
    [key \in {"unmarked", "sms-pending", "email-pending"} |->
        IF key = "unmarked"
        THEN <<[column |-> cfg.BATCH_COL, operator |-> "isEmpty", value |-> Text("")],
               [column |-> cfg.EMAIL_BATCH_COL, operator |-> "isEmpty", value |-> Text("")]>>
        ELSE IF key = "sms-pending"
        THEN <<[column |-> cfg.BATCH_COL, operator |-> "isEmpty", value |-> Text("")]>>
        ELSE <<[column |-> cfg.EMAIL_BATCH_COL, operator |-> "isEmpty", value |-> Text("")]>>]

\* DataManager.init(), FilterEngine.init()
Init ==
    /\ config \in Configs
    /\ data = <<>>
    /\ headers = <<>>
    /\ originalData = <<>>
    /\ undoStack = <<>>
    /\ redoStack = <<>>
    /\ smsBatches = {}
    /\ emailBatches = {}
    /\ conditions = <<>>
    /\ searchQuery = ""
    /\ filteredData = NullData
    /\ filteredIndices = NullIndices
    /\ presets = getDefaultPresets(config)
    /\ clock = 0
    /\ last = Did("init", TRUE)

(* DataManager and BatchManager, method by method *)

SetData(ds) ==
    /\ SetDM(setData(DM, config, ds.headers, ds.rows))
    /\ Replaced
    /\ last' = Did("setData", TRUE)

Clear ==
    /\ SetDM(clear(DM))
    /\ Replaced
    /\ last' = Did("clear", TRUE)

\* toggling "overwrite batch" in the configuration form
SaveConfig ==
    /\ config' = [config EXCEPT !.OVERWRITE_BATCH = ~@]
    /\ UNCHANGED <<dmVars, feVars>>
    /\ last' = Did("saveConfig", TRUE)

\* what `last` records of a BatchManager.mark*Batch call, r being what it returned
DidMark(op, r, limit, indices) ==
    [Did(op, r.success) EXCEPT
        !.picked = r.picked, !.newBatch = r.newBatch, !.limit = limit, !.indices = indices,
        !.streak = IF r.success /\ r.picked > 0
                   THEN (IF last.op = op THEN last.streak + 1 ELSE 1)
                   ELSE 0]

Marked(op, r, limit, indices) ==
    /\ SetDM(r.dm)
    /\ InPlace
    /\ last' = DidMark(op, r, limit, indices)

MarkSms(limit, indices) ==
    Room /\ Marked("markSms", markSmsBatch(DM, config, limit, indices), limit, indices)

MarkEmail(limit, indices) ==
    Room /\ Marked("markEmail", markEmailBatch(DM, config, limit, indices), limit, indices)

MarkRemindSms(limit, indices) ==
    Room /\ Marked("markRemindSms", markRemindSmsBatch(DM, config, limit, indices), limit, indices)

MarkRemindEmail(limit, indices) ==
    Room /\ Marked("markRemindEmail", markRemindEmailBatch(DM, config, limit, indices),
                   limit, indices)

DeleteSms(batchNumber) ==
    /\ Room
    /\ LET r == deleteSmsBatch(DM, config, batchNumber)
       IN SetDM(r.dm) /\ last' = [Did("deleteSms", r.success) EXCEPT !.picked = r.deleted,
                                                                     !.newBatch = batchNumber]
    /\ InPlace

DeleteEmail(batchNumber) ==
    /\ Room
    /\ LET r == deleteEmailBatch(DM, config, batchNumber)
       IN SetDM(r.dm) /\ last' = [Did("deleteEmail", r.success) EXCEPT !.picked = r.deleted,
                                                                       !.newBatch = batchNumber]
    /\ InPlace

UpdateCell(rowIndex, column, value) ==
    /\ Room
    /\ LET r == updateCell(DM, rowIndex, column, value)
       IN SetDM(r.dm) /\ last' = Did("updateCell", r.ok)
    /\ InPlace

UpdateRows(updates) ==
    /\ Room
    /\ SetDM(updateRows(DM, updates))
    /\ last' = Did("updateRows", TRUE)
    /\ InPlace

AddColumn(name) ==
    /\ Room
    /\ LET r == addColumn(DM, name, EMPTY)
       IN SetDM(r.dm) /\ last' = Did("addColumn", r.ok)
    /\ InPlace

ResetToOriginal ==
    /\ Room
    /\ LET r == resetToOriginal(DM, config)
       IN SetDM(r.dm) /\ last' = Did("resetToOriginal", r.ok)
    /\ Replaced

\* the cached row objects once the rows are shuffled: they move with the rows
shuffledCache(fd, n, js) ==
    IF fd.live
    THEN [fd EXCEPT !.pos =
            [k \in 1..Len(@) |->
                (CHOOSE p \in 1..n :
                    fisherYates([i \in 1..n |-> i - 1], n - 1, js)[p] = @[k]) - 1]]
    ELSE fd

\* index.js shuffleData, which ends by rendering the table
Shuffle(js) ==
    /\ Room
    /\ LET r == shuffleData(DM, js)
       IN /\ SetDM(r.dm)
          /\ last' = Did("shuffle", r.ok)
          /\ SetFE(IF r.ok
                   THEN renderDataTable(
                            [FE EXCEPT !.filteredData = shuffledCache(@, Len(data), js)],
                            r.dm.data)
                   ELSE FE)
    /\ UNCHANGED <<clock, config>>

Undo ==
    /\ LET r == undo(DM, config)
       IN /\ SetDM(r.dm)
          /\ last' = [Did("undo", r.ok) EXCEPT !.saved = IF r.ok THEN data ELSE <<>>]
          /\ IF r.ok THEN Replaced ELSE InPlace

Redo ==
    /\ LET r == redo(DM, config)
       IN /\ SetDM(r.dm)
          /\ last' = [Did("redo", r.ok) EXCEPT
                            !.after = IF last.op = "undo" /\ last.ok THEN "undo" ELSE "",
                            !.saved = IF last.op = "undo" /\ last.ok THEN last.saved ELSE <<>>]
          /\ IF r.ok THEN Replaced ELSE InPlace

\* the arguments the model gives the operations
Limits == {1, 2, NumRows + 2}
Candidates == {NullIndices, Indices(<<NumRows - 1, 0>>)}
BatchNumbers(known) == known \cup {Max(known \cup {0}) + 1}

\* every operation of DataManager and BatchManager, each on one input
Next ==
    \/ \E ds \in CompleteDatasets : SetData(ds)
    \/ Clear
    \/ MarkSms(2, NullIndices)
    \/ MarkEmail(2, NullIndices)
    \/ MarkRemindSms(2, NullIndices)
    \/ MarkRemindEmail(2, NullIndices)
    \/ \E n \in BatchNumbers(smsBatches) : DeleteSms(n)
    \/ \E n \in BatchNumbers(emailBatches) : DeleteEmail(n)
    \/ UpdateCell(0, config.BATCH_COL, Num(3))
    \/ UpdateRows(<<[rowIndex |-> 1, updates |-> <<<<"Status", Str("Done")>>>>]>>)
    \/ AddColumn("Note")
    \/ ResetToOriginal
    \/ \E js \in Draws(Len(data)) : Shuffle(js)
    \/ Undo
    \/ Redo

Spec == Init /\ [][Next]_vars

\* marking under every limit and candidate list, overwrite on and off, the
\* sheet with or without the batch columns
NextBatch ==
    \/ \E ds \in Datasets : SetData(ds)
    \/ SaveConfig
    \/ \E limit \in Limits, c \in Candidates : MarkSms(limit, c)
    \/ \E limit \in Limits, c \in Candidates : MarkEmail(limit, c)
    \/ \E limit \in Limits, c \in Candidates : MarkRemindSms(limit, c)
    \/ \E limit \in Limits, c \in Candidates : MarkRemindEmail(limit, c)

SpecBatch == Init /\ [][NextBatch]_vars

(* FilterEngine, method by method *)

\* Date.now() does not go back: it is the time last read, or later
Now == {now \in {clock, clock + 1} : now <= MaxClock}

\* the values Math.random gives loadPreset, in tenths
Fracs == {1}

\* index.js addFilterCondition: addCondition() without argument
AddFilterCondition ==
    /\ Len(conditions) < MaxConds
    /\ \E now \in Now : SetFE(addCondition(FE, defaultCondition(now))) /\ clock' = now
    /\ UNCHANGED <<dmVars, config>>
    /\ last' = Did("addCondition", TRUE)

\* addCondition(condition) with a condition object
AddCondition(condition) ==
    /\ Len(conditions) < MaxConds
    /\ SetFE(addCondition(FE, condition))
    /\ UNCHANGED <<dmVars, config, clock>>
    /\ last' = Did("addCondition", TRUE)

UpdateCondition(id, field, v) ==
    /\ SetFE(updateCondition(FE, id, field, v))
    /\ UNCHANGED <<dmVars, config, clock>>
    /\ last' = Did("updateCondition", findCondition(conditions, id) # 0)

RemoveCondition(id) ==
    /\ SetFE(removeCondition(FE, id))
    /\ UNCHANGED <<dmVars, config, clock>>
    /\ last' = Did("removeCondition", TRUE)

ClearConditions ==
    /\ SetFE(clearConditions(FE))
    /\ UNCHANGED <<dmVars, config, clock>>
    /\ last' = Did("clearConditions", TRUE)

SetSearchQuery(query) ==
    /\ SetFE(setSearchQuery(FE, query))
    /\ UNCHANGED <<dmVars, config, clock>>
    /\ last' = Did("setSearchQuery", TRUE)

LoadPreset(key) ==
    /\ \E now \in Now :
        \E fracs \in [1..(IF key \in DOMAIN presets THEN Len(presets[key]) ELSE 0) -> Fracs] :
            LET r == loadPreset(FE, headers, key, now, fracs)
            IN /\ SetFE(r.fe)
               /\ clock' = IF r.ok THEN now ELSE clock
               /\ last' = Did("loadPreset", r.ok)
    /\ UNCHANGED <<dmVars, config>>

InvalidateCache ==
    /\ SetFE(invalidateCache(FE))
    /\ UNCHANGED <<dmVars, config, clock>>
    /\ last' = Did("invalidateCache", TRUE)

\* FilterEngine.apply(DataManager.getData()); `last` keeps what it returned, the
\* operation it came after, and whether one apply (1) or more (2) have run since
\* an invalidateCache
Apply ==
    /\ LET a == apply(FE, data)
       IN /\ SetFE(a.fe)
          /\ last' = [Did("apply", TRUE) EXCEPT
                        !.result = [data |-> a.data, indices |-> a.indices],
                        !.after = IF last.ok THEN last.op ELSE "",
                        !.streak = IF last.op = "invalidateCache" THEN 1
                                   ELSE IF last.op = "apply" /\ last.streak > 0
                                        THEN 2 ELSE 0]
    /\ UNCHANGED <<dmVars, config, clock>>

(* index.js, handler by handler *)

\* markBatch(type, limit): the rows of the Filtered View when a filter is
\* active, the table rendered after a success
MarkBatch(type, limit) ==
    /\ Room
    /\ \E active \in {hasActiveFilters(FE)}, filtered \in {apply(FE, data)} :
        \E indices \in {IF active THEN Indices(filtered.indices) ELSE NullIndices},
           fe \in {IF active THEN filtered.fe ELSE FE} :
            \E r \in {IF type = "sms" THEN markSmsBatch(DM, config, limit, indices)
                      ELSE IF type = "email" THEN markEmailBatch(DM, config, limit, indices)
                      ELSE IF type = "remind_sms" THEN markRemindSmsBatch(DM, config, limit, indices)
                      ELSE markRemindEmailBatch(DM, config, limit, indices)},
               op \in {IF type = "sms" THEN "markSms"
                       ELSE IF type = "email" THEN "markEmail"
                       ELSE IF type = "remind_sms" THEN "markRemindSms"
                       ELSE "markRemindEmail"} :
                /\ SetDM(r.dm)
                /\ SetFE(IF r.success THEN renderDataTable(fe, r.dm.data) ELSE fe)
                /\ last' = DidMark(op, r, limit, indices)
    /\ UNCHANGED <<clock, config>>

UndoAction ==
    /\ LET r == undo(DM, config)
       IN /\ SetDM(r.dm)
          /\ SetFE(IF r.ok THEN renderDataTable(Detached, r.dm.data) ELSE FE)
          /\ last' = [Did("undo", r.ok) EXCEPT !.saved = IF r.ok THEN data ELSE <<>>]
    /\ UNCHANGED <<clock, config>>

RedoAction ==
    /\ LET r == redo(DM, config)
       IN /\ SetDM(r.dm)
          /\ SetFE(IF r.ok THEN renderDataTable(Detached, r.dm.data) ELSE FE)
          /\ last' = [Did("redo", r.ok) EXCEPT
                            !.after = IF last.op = "undo" /\ last.ok THEN "undo" ELSE "",
                            !.saved = IF last.op = "undo" /\ last.ok THEN last.saved ELSE <<>>]
    /\ UNCHANGED <<clock, config>>

\* deleteBatchAction with the batch type and number chosen in the form and the deletion confirmed
DeleteBatchAction(type, batchNumber) ==
    /\ Room
    /\ batchNumber # 0
    /\ LET r == IF type = "sms" THEN deleteSmsBatch(DM, config, batchNumber)
                ELSE deleteEmailBatch(DM, config, batchNumber)
       IN /\ SetDM(r.dm)
          /\ SetFE(IF r.success THEN renderDataTable(FE, r.dm.data) ELSE FE)
          /\ last' = [Did(IF type = "sms" THEN "deleteSms" ELSE "deleteEmail", r.success)
                        EXCEPT !.picked = r.deleted, !.newBatch = batchNumber]
    /\ UNCHANGED <<clock, config>>

\* a condition object handed to addCondition
StatusIsComplete ==
    [id |-> Id(0, 5), column |-> "Status", operator |-> "equals", value |-> Text("complete"),
     active |-> TRUE]

\* the edits of a condition the model makes
Edits == {<<"column", "Status">>, <<"active", FALSE>>}

ConditionIds == {conditions[i].id : i \in 1..Len(conditions)}

FilterRoom == Len(undoStack) < MaxFilterHist

\* the Filter Set and the Row Store changing in turn, with apply() in between
NextFilter ==
    \/ SetData(FullData)
    \/ AddFilterCondition
    \/ AddCondition(StatusIsComplete)
    \/ \E id \in ConditionIds, e \in Edits : UpdateCondition(id, e[1], e[2])
    \/ \E id \in ConditionIds : RemoveCondition(id)
    \/ ClearConditions
    \/ SetSearchQuery(" Par ")
    \/ \E key \in {"sms-pending", "archived"} : LoadPreset(key)
    \/ InvalidateCache
    \/ Apply
    \/ FilterRoom /\ MarkBatch("sms", 1)
    \/ \E n \in smsBatches : DeleteBatchAction("sms", n)
    \/ FilterRoom /\ UpdateCell(0, "Status", Str("Partial"))
    \/ FilterRoom /\ \E js \in {[i \in 1..(Len(data) - 1) |-> 0]} : Shuffle(js)
    \/ UndoAction
    \/ RedoAction

SpecFilter == Init /\ [][NextFilter]_vars

\* FilterEngine alone, the rows loaded and edited under it
NextCache ==
    \/ SetData(FullData)
    \/ AddCondition(StatusIsComplete)
    \/ \E id \in ConditionIds, e \in Edits : UpdateCondition(id, e[1], e[2])
    \/ \E id \in ConditionIds : RemoveCondition(id)
    \/ ClearConditions
    \/ \E query \in {"", " Par "} : SetSearchQuery(query)
    \/ InvalidateCache
    \/ Apply
    \/ FilterRoom /\ \E value \in {Str("Partial"), Str("Complete")} : UpdateCell(0, "Status", value)

SpecCache == Init /\ [][NextCache]_vars

-----------------------------------------------------------------------------
(* Undo/Redo Stack *)

\* C1 (P5): in every reachable state where undo() succeeds, undo() followed
\* immediately by redo() succeeds too and leaves the rows and the headers as
\* they were before the undo; and every redo that did follow an undo in the
\* behaviour left the rows the undo had found.
UndoRedoInverse ==
    /\ undo(DM, config).ok =>
          LET r == redo(undo(DM, config).dm, config)
          IN r.ok /\ r.dm.data = data /\ r.dm.headers = headers
    /\ (last.op = "redo" /\ last.after = "undo") => (last.ok /\ data = last.saved)

\* C1's case: a redo has just followed an undo that had changed the rows
UndoRedoInverseWitness ==
    /\ last.op = "redo" /\ last.after = "undo" /\ last.ok
    /\ undoStack # <<>> /\ undoStack[Len(undoStack)] # data

MutatingOps ==
    {"markSms", "markEmail", "markRemindSms", "markRemindEmail", "deleteSms", "deleteEmail",
     "updateCell", "updateRows", "addColumn", "resetToOriginal", "shuffle"}

\* C2 (P6): every step that performs a mutating operation (a markBatch on any
\* channel, a deleteBatch, updateCell, updateRows, addColumn, resetToOriginal or
\* shuffle that returned success) leaves the redo stack empty, so that redo()
\* afterwards returns false.
HistoryLinear ==
    [][(last'.op \in MutatingOps /\ last'.ok) =>
            (redoStack' = <<>> /\ ~redo(DM', config').ok)]_vars

\* C2's case: a mutating operation was performed while redo entries were available
HistoryLinearWitness ==
    last.op \in MutatingOps /\ last.ok /\ last.redoBefore > 0 /\ redoStack = <<>>

-----------------------------------------------------------------------------
(* Batch Assigner *)

MarkOps == {"markSms", "markEmail", "markRemindSms", "markRemindEmail"}

\* the batch column of the channel a mark operation writes, under headers hs
BatchColumnOf(op, hs, cfg) ==
    IF op = "markSms" THEN columnOr(hs, cfg.BATCH_COL, "SMS_Batch")
    ELSE IF op = "markEmail" THEN columnOr(hs, cfg.EMAIL_BATCH_COL, "Email_Batch")
    ELSE IF op = "markRemindSms" THEN columnOr(hs, cfg.REMIND_SMS_BATCH_COL, "Remind_SMS_Batch")
    ELSE columnOr(hs, cfg.REMIND_EMAIL_BATCH_COL, "Remind_Email_Batch")

\* a cell that holds something
NonEmpty(v) == v # EMPTY /\ v # UNDEFINED

\* two cells with the same content, a missing cell being an empty one
SameCell(v, w) == v = w \/ (~NonEmpty(v) /\ ~NonEmpty(w))

\* C3 (P3): on each of the four channels, when a successful mark that picked
\* at least one row is immediately followed by another successful mark on the
\* same channel that picks at least one row, the second newBatchNumber is the
\* first plus 1.
SuccessiveBatchNumbers ==
    [][(/\ last.op \in MarkOps /\ last.ok /\ last.picked > 0
        /\ last'.op = last.op /\ last'.ok /\ last'.picked > 0)
            => last'.newBatch = last.newBatch + 1]_vars

\* C3's case: a second successive mark on one channel has picked a row
SuccessiveBatchNumbersWitness ==
    last.op \in MarkOps /\ last.ok /\ last.picked > 0 /\ last.streak >= 2

\* C4 (P4): with overwrite disabled, a successful mark on any channel leaves
\* the batch cell (for sms the content cell too) of every row whose batch cell
\* for the channel held something before the call as it was, and its picked
\* count counts only rows whose batch cell was empty and now holds the new number.
NeverRepicked ==
    [][(last'.op \in MarkOps /\ last'.ok /\ ~config.OVERWRITE_BATCH) =>
          \E col \in {BatchColumnOf(last'.op, headers', config)} :
            \E contentCol \in {columnOr(headers', config.CONTENT_COL, "SMS_Content")} :
              /\ \A i \in 1..Len(data) :
                    NonEmpty(Cell(data[i], col)) =>
                        /\ Cell(data'[i], col) = Cell(data[i], col)
                        /\ last'.op = "markSms" =>
                                Cell(data'[i], contentCol) = Cell(data[i], contentCol)
              /\ last'.picked = Cardinality({i \in 1..Len(data) :
                                     /\ ~NonEmpty(Cell(data[i], col))
                                     /\ Cell(data'[i], col) = Num(last'.newBatch)})]_vars

\* C4's case: with overwrite disabled a mark has gone through every row, picked
\* some, and met a row that held a batch number before the call
NeverRepickedWitness ==
    /\ last.op \in MarkOps /\ last.ok /\ ~config.OVERWRITE_BATCH
    /\ last.indices.isNull /\ last.limit > NumRows /\ last.picked > 0
    /\ undoStack # <<>>
    /\ \E i \in 1..Len(data) :
            NonEmpty(Cell(undoStack[Len(undoStack)][i], BatchColumnOf(last.op, headers, config)))

Min(a, b) == IF a < b THEN a ELSE b

\* the candidate positions (0-based) of a mark over rows, in the order they are met
CandidateOrder(rows, indices) ==
    IF indices.isNull THEN [i \in 1..Len(rows) |-> i - 1] ELSE indices.list

\* whether the row at position i (0-based) may be picked: its batch cell is
\* empty, or (sms and email) overwrite is enabled
Eligible(op, rows, i, col, cfg) ==
    \/ ~NonEmpty(Cell(rows[i + 1], col))
    \/ (op \in {"markSms", "markEmail"} /\ cfg.OVERWRITE_BATCH)

-----------------------------------------------------------------------------
(* Filtered View Cache *)

\* the rows and indices a recomputation gives for the current rows and Filter Set
Fresh ==
    CHOOSE r \in {[data |-> [k \in 1..Len(found) |-> data[found[k] + 1]], indices |-> found] :
                    found \in {matching(FE, data)}} : TRUE

FilterSetChanges ==
    {"addCondition", "updateCondition", "removeCondition", "clearConditions", "setSearchQuery",
     "loadPreset"}

RowStoreChanges ==
    MarkOps \cup {"deleteSms", "deleteEmail", "undo", "redo", "shuffle", "updateCell", "setData"}

\* C6: an apply() that comes next after a change of the Filter Set
\* (addCondition, updateCondition, removeCondition, clearConditions,
\* setSearchQuery, loadPreset) returns the rows and indices that the current
\* conditions and search query select in the rows.
AppliesCurrentFilterSet ==
    (last.op = "apply" /\ last.after \in FilterSetChanges) => last.result = Fresh

\* C7: an apply() that comes next after a change of the Row Store (a mark,
\* a delete, undo, redo, shuffle, updateCell, setData) returns the rows that
\* match the Filter Set in the rows as they are now.
AppliesCurrentRowStore ==
    (last.op = "apply" /\ last.after \in RowStoreChanges) => last.result = Fresh

\* C8 (P2): an apply() that comes next after an apply() returns the rows and
\* indices that one returned; an apply() that comes next after
\* invalidateCache() returns what a recomputation gives for the rows and the
\* Filter Set of the moment.
ApplyMemoizes ==
    [][(last'.op = "apply") =>
          /\ last.op = "apply" => last'.result = last.result
          /\ last.op = "invalidateCache" => last'.result = Fresh']_vars

\* C8's case: with a filter that selects some rows and not others, an apply
\* has followed the apply that followed an invalidateCache
ApplyMemoizesWitness ==
    /\ last.op = "apply" /\ last.after = "apply" /\ last.streak = 2
    /\ hasActiveFilters(FE)
    /\ last.result.indices # <<>> /\ Len(last.result.indices) < Len(data)

\* C9 (P1): the indices an apply() returns are strictly increasing and lie in
\* 0..n-1, n being the number of rows, and the k-th row returned is the row at
\* the k-th index.
IndicesIncreasing ==
    last.op = "apply" =>
        LET indices == last.result.indices
        IN /\ \A k \in 1..Len(indices) : indices[k] >= 0 /\ indices[k] < Len(data)
           /\ \A k \in 1..(Len(indices) - 1) : indices[k] < indices[k + 1]
           /\ Len(last.result.data) = Len(indices)
           /\ \A k \in 1..Len(indices) :
                (indices[k] >= 0 /\ indices[k] < Len(data)) =>
                    last.result.data[k] = data[indices[k] + 1]

-----------------------------------------------------------------------------
(* Known batch numbers *)

\* the column markSmsBatch writes batch numbers to, and the one markEmailBatch writes to
smsBatchColumn == columnOr(headers, config.BATCH_COL, "SMS_Batch")
emailBatchColumn == columnOr(headers, config.EMAIL_BATCH_COL, "Email_Batch")

\* the distinct positive integers in a column of the rows
PositiveIntegersIn(rows, col) ==
    {rows[i][col].n : i \in {j \in 1..Len(rows) :
        col \in DOMAIN rows[j] /\ rows[j][col].t = "num" /\ rows[j][col].n > 0}}

\* C10: in every reachable state the known-batches set of the sms channel and
\* that of the email channel are the sets of distinct positive integers in the
\* channel's batch column, and the next batch number is the largest of them
\* plus one (1 when there is none).
KnownBatchesMatchColumn ==
    /\ smsBatches = PositiveIntegersIn(data, smsBatchColumn)
    /\ emailBatches = PositiveIntegersIn(data, emailBatchColumn)
    /\ getNextSmsBatch(DM) = Max(PositiveIntegersIn(data, smsBatchColumn) \cup {0}) + 1
    /\ getNextEmailBatch(DM) = Max(PositiveIntegersIn(data, emailBatchColumn) \cup {0}) + 1

-----------------------------------------------------------------------------
(* Batch deletion *)

DeleteOps == {"deleteSms", "deleteEmail"}

\* the batch column a delete operation looks up, '' when the sheet has none
DeleteColumnOf(op, hs, cfg) ==
    findColumn(hs, IF op = "deleteSms" THEN cfg.BATCH_COL ELSE cfg.EMAIL_BATCH_COL)

\* the rows (1-based) whose cell in col is the number n
RowsHolding(rows, col, n) == {i \in 1..Len(rows) : Cell(rows[i], col) = Num(n)}

\* C11: a deleteBatch(channel, N) on sms or email that finds the batch column
\* sets the batch cell of every row whose batch cell is N to empty (for sms the
\* content cell too, when the sheet has a content column) and no other cell of
\* it, leaves every other row as it was, returns the number of rows it cleared,
\* and leaves N out of the channel's known-batches set.
DeleteClearsBatch ==
    [][(last'.op \in DeleteOps /\ last'.ok) =>
          \E col \in {DeleteColumnOf(last'.op, headers, config)} :
            \E contentCol \in {findColumn(headers, config.CONTENT_COL)} :
              \E hit \in {RowsHolding(data, col, last'.newBatch)} :
                /\ col # ""
                /\ Len(data') = Len(data)
                /\ \A i \in 1..Len(data) :
                     IF i \in hit
                     THEN /\ data'[i][col] = EMPTY
                          /\ (last'.op = "deleteSms" /\ contentCol # "") =>
                                    data'[i][contentCol] = EMPTY
                          /\ DOMAIN data'[i] = DOMAIN data[i]
                          /\ \A k \in DOMAIN data[i] :
                                (k # col /\ ~(last'.op = "deleteSms" /\ k = contentCol))
                                    => data'[i][k] = data[i][k]
                     ELSE data'[i] = data[i]
                /\ last'.picked = Cardinality(hit)
                /\ IF last'.op = "deleteSms" THEN last'.newBatch \notin smsBatches'
                   ELSE last'.newBatch \notin emailBatches']_vars

\* C11's case, Scenario D: a delete of a sms batch has cleared two rows that
\* held its number and their content
DeleteClearsBatchWitness ==
    /\ last.op = "deleteSms" /\ last.ok /\ last.picked = 2
    /\ undoStack # <<>>
    /\ \E i \in 1..Len(data) :
          /\ Cell(undoStack[Len(undoStack)][i], smsBatchColumn) = Num(last.newBatch)
          /\ NonEmpty(Cell(undoStack[Len(undoStack)][i], findColumn(headers, config.CONTENT_COL)))
          /\ Cell(data[i], smsBatchColumn) = EMPTY

\* C12: a deleteBatch(channel, N) that finds the batch column while no row
\* holds N returns success with count 0, changes no row, and leaves the undo
\* stack and the redo stack as they were.
DeleteOfNothingIsNoOp ==
    [][(/\ last'.op \in DeleteOps
        /\ DeleteColumnOf(last'.op, headers, config) # ""
        /\ RowsHolding(data, DeleteColumnOf(last'.op, headers, config), last'.newBatch) = {})
            => /\ last'.ok /\ last'.picked = 0
               /\ data' = data
               /\ undoStack' = undoStack
               /\ redoStack' = redoStack]_vars

-----------------------------------------------------------------------------
(* History at its ends *)

\* C13: undo() with an empty undo stack returns false and leaves the rows, the
\* headers, the redo stack and both known-batches sets as they were; redo()
\* with an empty redo stack returns false and leaves the rows, the headers, the
\* undo stack and both known-batches sets as they were.
EmptyHistoryIsNoOp ==
    [][/\ (last'.op = "undo" /\ undoStack = <<>>) =>
            /\ ~last'.ok
            /\ data' = data /\ headers' = headers /\ redoStack' = redoStack
            /\ undoStack' = <<>>
            /\ smsBatches' = smsBatches /\ emailBatches' = emailBatches
       /\ (last'.op = "redo" /\ redoStack = <<>>) =>
            /\ ~last'.ok
            /\ data' = data /\ headers' = headers /\ undoStack' = undoStack
            /\ redoStack' = <<>>
            /\ smsBatches' = smsBatches /\ emailBatches' = emailBatches]_vars

\* C13's case, Scenario E: an undo() has returned false on rows that were
\* loaded and marked, once everything had been undone
EmptyHistoryIsNoOpWitness ==
    /\ last.op = "undo" /\ ~last.ok
    /\ undoStack = <<>> /\ redoStack # <<>> /\ data # <<>>

\* the number of the edit that gave the rows their value: the first row's
\* Status holds it, 0 as loaded
EditNumber(rows) ==
    IF rows # <<>> /\ rows[1]["Status"].t = "num" THEN rows[1]["Status"].n ELSE 0

\* updateCell(0, 'Status', k), k being the number of this edit
EditStatus ==
    /\ data # <<>>
    /\ EditNumber(data) < maxUndoSteps + Overrun
    /\ \E r \in {updateCell(DM, 0, "Status", Num(EditNumber(data) + 1))} :
            SetDM(r.dm) /\ last' = Did("updateCell", r.ok)
    /\ InPlace

\* one cell edited more often than the undo stack is deep, with undo and redo
NextDepth ==
    \/ SetData(FullData)
    \/ EditStatus
    \/ Undo
    \/ Redo

SpecDepth == Init /\ [][NextDepth]_vars

\* C14: the undo stack never holds more than maxUndoSteps (50) snapshots; a
\* mutating operation on a full stack drops the oldest snapshot, keeps the
\* others in their order and puts the rows as they were before it on top, so
\* that after an edit the stack holds, oldest first, the rows as they were
\* before each of the latest edits, 50 of them at most.
UndoStackBounded ==
    [][/\ Len(undoStack') <= maxUndoSteps
       /\ (last'.op = "updateCell" /\ last'.ok) =>
            /\ undoStack' = IF Len(undoStack) = maxUndoSteps
                            THEN Append(Tail(undoStack), data)
                            ELSE Append(undoStack, data)
            /\ \A j \in 1..Len(undoStack') :
                    EditNumber(undoStack'[j]) = EditNumber(data') - (Len(undoStack') - j + 1)]_vars

\* C14's case: maxUndoSteps + 2 edits were made, and the stack holds the rows
\* as they were before the latest maxUndoSteps of them
UndoStackBoundedWitness ==
    /\ last.op = "updateCell" /\ last.ok
    /\ EditNumber(data) = maxUndoSteps + 2
    /\ Len(undoStack) = maxUndoSteps
    /\ EditNumber(undoStack[1]) = 2

-----------------------------------------------------------------------------
(* Loading *)

\* the sheet of a dataset as XLSX.utils.sheet_to_json(sheet, {header: 1}) gives
\* it: the header row, then the rows, each an array of cells
SheetOf(ds) ==
    <<[i \in 1..Len(ds.headers) |-> Str(ds.headers[i])]>>
        \o [r \in 1..Len(ds.rows) |-> [i \in 1..Len(ds.headers) |-> ds.rows[r][ds.headers[i]]]]

\* the files imported: an empty one, a sheet without the batch columns, a
\* saved sheet, and a sheet with a padded and a missing header and a short row
Sheets ==
    {<<>>, SheetOf(BareData), SheetOf(MarkedData),
     <<<<Str(" Link "), EMPTY>>, <<Str("u0"), Str("Complete")>>, <<Str("u1")>>>>}

\* DataManager.importFile once the file is read
ImportFile(jsonData) ==
    /\ \E r \in {importFile(DM, config, jsonData)} :
        /\ SetDM(r.dm)
        /\ last' = Did("importFile", r.ok)
        /\ IF r.ok THEN Replaced ELSE InPlace

\* loads and clears between marks, undo and redo
NextLoad ==
    \/ \E ds \in Datasets : SetData(ds)
    \/ \E jsonData \in Sheets : ImportFile(jsonData)
    \/ Clear
    \/ MarkSms(2, NullIndices)
    \/ MarkEmail(1, NullIndices)
    \/ Undo
    \/ Redo

SpecLoad == Init /\ [][NextLoad]_vars

LoadOps == {"setData", "importFile"}

\* a DataManager whose history is empty: undo() and redo() return false on it
NoHistory(dm, cfg) ==
    /\ dm.undoStack = <<>> /\ dm.redoStack = <<>>
    /\ ~undo(dm, cfg).ok /\ ~redo(dm, cfg).ok

\* C15: in every reachable state, setData(headers, rows) gives a Row Store
\* whose headers and rows are the supplied ones and whose undo and redo stacks
\* are empty, so that undo() and redo() return false on it; importFile of a
\* sheet gives one that begins with the sheet's headers, holds the sheet's
\* cells under them, and has both stacks empty; clear() gives one with no rows,
\* no headers, both stacks and both known-batches sets empty.  The state a load
\* or a clear of the behaviour has just left is such a state.
LoadForgetsHistory ==
    /\ \A ds \in Datasets :
            \E dm \in {setData(DM, config, ds.headers, ds.rows)} :
                dm.headers = ds.headers /\ dm.data = ds.rows /\ NoHistory(dm, config)
    /\ \A jsonData \in Sheets \ {<<>>} :
            \E r \in {importFile(DM, config, jsonData)}, hs \in {headerNames(jsonData[1])} :
                /\ r.ok
                /\ SubSeq(r.dm.headers, 1, Len(hs)) = hs
                /\ Len(r.dm.data) = Len(jsonData) - 1
                /\ \A k \in 1..Len(r.dm.data) : \A i \in 1..Len(jsonData[k + 1]) :
                        r.dm.data[k][hs[i]] = jsonData[k + 1][i]
                /\ NoHistory(r.dm, config)
    /\ \E dm \in {clear(DM)} :
            /\ dm.data = <<>> /\ dm.headers = <<>> /\ NoHistory(dm, config)
            /\ dm.smsBatches = {} /\ dm.emailBatches = {}
    /\ (last.op \in LoadOps /\ last.ok) => NoHistory(DM, config)
    /\ last.op = "clear" =>
            /\ data = <<>> /\ headers = <<>> /\ NoHistory(DM, config)
            /\ smsBatches = {} /\ emailBatches = {}

\* C15's case: rows were loaded while a redo was available, and the load left
\* rows and no history
LoadForgetsHistoryWitness ==
    /\ last.op \in LoadOps /\ last.ok /\ last.redoBefore > 0
    /\ data # <<>> /\ undoStack = <<>> /\ redoStack = <<>>

-----------------------------------------------------------------------------
(* Preconditions *)

\* the limits handed to BatchManager that are not numbers of rows
BadLimits == {-1, 0}

\* marks under a bad limit, one good mark and deletes, on a sheet with and one
\* without the batch columns and on no sheet at all
NextPre ==
    \/ \E ds \in {BareData, FullData} : SetData(ds)
    \/ Clear
    \/ \E limit \in BadLimits \cup {2} : MarkSms(limit, NullIndices)
    \/ MarkEmail(0, NullIndices)
    \/ MarkRemindSms(0, NullIndices)
    \/ MarkRemindEmail(0, NullIndices)
    \/ DeleteSms(1)
    \/ DeleteEmail(1)
    \/ Undo

SpecPre == Init /\ [][NextPre]_vars

\* C16: a mark on any channel called with no rows loaded, or with a limit
\* that is zero or negative, returns success false and leaves the rows, the
\* headers, the undo stack, the redo stack and the known-batches sets as they
\* were; so does a deleteBatch whose batch column cannot be resolved.
FailedPreconditionIsNoOp ==
    [][/\ (last'.op \in MarkOps /\ (data = <<>> \/ last'.limit <= 0)) =>
            (~last'.ok /\ UNCHANGED dmVars)
       /\ (last'.op \in DeleteOps /\ DeleteColumnOf(last'.op, headers, config) = "") =>
            (~last'.ok /\ UNCHANGED dmVars)]_vars

-----------------------------------------------------------------------------
(* Eligibility and derived content *)

\* C17: on each of the four channels a candidate row is eligible exactly when
\* overwrite is enabled or its batch cell for the channel is empty: a
\* successful mark with limit >= 1 writes the new batch number to the first
\* min(limit, E) such candidates, E being their number, and to no other row; so
\* with overwrite enabled a row that holds a batch number is picked again.
OverwriteMakesEligible ==
    [][(last'.op \in MarkOps /\ last'.ok /\ last'.limit >= 1) =>
          \E col \in {BatchColumnOf(last'.op, headers', config)} :
            \E eligible \in {SelectSeq(CandidateOrder(data, last'.indices),
                                LAMBDA i : \/ config.OVERWRITE_BATCH
                                           \/ ~NonEmpty(Cell(data[i + 1], col)))} :
              \E picked \in {{eligible[k] : k \in 1..Min(last'.limit, Len(eligible))}} :
                /\ last'.picked = Min(last'.limit, Len(eligible))
                /\ \A i \in 0..(Len(data) - 1) :
                        i \in picked <=> Cell(data'[i + 1], col) = Num(last'.newBatch)]_vars

\* the configured template followed by the row's source-column value
DerivedContent(row, sourceCol, cfg) ==
    Str(cfg.TEMPLATE_TEXT \o (IF sourceCol # "" /\ NonEmpty(Cell(row, sourceCol))
                              THEN StringOf(Cell(row, sourceCol)) ELSE ""))

\* the content column a mark operation is judged on: the one the configuration
\* resolves to before the call, else the one an sms channel creates
ContentColumnOf(op, hs, hsAfter, cfg) ==
    IF findColumn(hs, cfg.CONTENT_COL) # "" THEN findColumn(hs, cfg.CONTENT_COL)
    ELSE IF op \in {"markSms", "markRemindSms"}
         THEN columnOr(hsAfter, cfg.CONTENT_COL, "SMS_Content")
         ELSE ""

\* C18: after a successful mark on the sms or the remind-sms channel every
\* picked row (the rows that received the new batch number) holds in its
\* content cell the configured template followed by its source-column value;
\* a mark on the email or the remind-email channel writes no content cell, and
\* a row that was not picked keeps its content cell.  (Configurations whose
\* content reference and batch reference resolve to one column are left aside.)
PickedRowsGetContent ==
    [][(last'.op \in MarkOps /\ last'.ok) =>
          \E col \in {BatchColumnOf(last'.op, headers', config)},
             contentCol \in {ContentColumnOf(last'.op, headers, headers', config)} :
            \A i \in 1..Len(data) :
                contentCol = col \/
                IF /\ last'.op \in {"markSms", "markRemindSms"}
                   /\ Cell(data'[i], col) = Num(last'.newBatch)
                   /\ Cell(data[i], col) # Num(last'.newBatch)
                THEN Cell(data'[i], contentCol) =
                        DerivedContent(data[i], findColumn(headers, config.SOURCE_COL), config)
                ELSE SameCell(Cell(data'[i], contentCol), Cell(data[i], contentCol))]_vars

-----------------------------------------------------------------------------
(* One snapshot per mark *)

\* rows a and b agree, row by row, on the cells of columns cols
SameCells(a, b, cols) ==
    /\ Len(a) = Len(b)
    /\ \A i \in 1..Len(a), col \in cols : SameCell(Cell(a[i], col), Cell(b[i], col))

\* C19: a successful mark pushes exactly one undo snapshot, whatever the
\* number of rows it picks (the stack being below maxUndoSteps), and that
\* snapshot holds every row's batch cell and content cell as they were before
\* the call; an undo() right after a successful mark succeeds and gives every
\* row the batch cell and the content cell of that snapshot, so the two cells
\* are back to what they were before the mark.
MarkIsOneUndoStep ==
    [][/\ (last'.op \in MarkOps /\ last'.ok) =>
            /\ Len(undoStack') = Len(undoStack) + 1
            /\ SubSeq(undoStack', 1, Len(undoStack)) = undoStack
            /\ SameCells(undoStack'[Len(undoStack')], data,
                         {BatchColumnOf(last'.op, headers', config),
                          ContentColumnOf(last'.op, headers, headers', config)})
       /\ (last.op \in MarkOps /\ last.ok /\ last'.op = "undo") =>
            /\ last'.ok
            /\ undoStack' = SubSeq(undoStack, 1, Len(undoStack) - 1)
            /\ SameCells(data', undoStack[Len(undoStack)],
                         {BatchColumnOf(last.op, headers, config),
                          columnOr(headers, config.CONTENT_COL, "SMS_Content")})]_vars

\* an undo has just emptied the batch cells that one mark gave to two rows
MarkIsOneUndoStepWitness ==
    /\ last.op = "undo" /\ last.ok
    /\ \E op \in MarkOps : \E col \in {BatchColumnOf(op, headers, config)} :
         \E i, j \in 1..Len(data) :
            /\ i # j /\ Len(last.saved) = Len(data)
            /\ NonEmpty(Cell(last.saved[i], col))
            /\ Cell(last.saved[i], col) = Cell(last.saved[j], col)
            /\ ~NonEmpty(Cell(data[i], col)) /\ ~NonEmpty(Cell(data[j], col))

-----------------------------------------------------------------------------
(* Conditions on a missing cell *)

\* getOperators(): the vocabulary of operators
Operators ==
    {"equals", "notEquals", "contains", "notContains", "startsWith", "endsWith", "isEmpty",
     "isNotEmpty", "greaterThan", "lessThan", "greaterOrEqual", "lessOrEqual", "regex",
     "inList", "notInList"}

\* the condition objects handed to addCondition: every operator on the SMS batch
\* column, which a sheet may lack, against an empty value and against "1"
CellConditions ==
    {[id |-> Id(0, 5), column |-> "SMS_Batch", operator |-> operator, value |-> value,
      active |-> TRUE] : operator \in Operators, value \in {Text(""), Text("1")}}

\* a filter of one operator after another applied to a sheet without the
\* column and to one with it
NextMatch ==
    \/ \E ds \in {BareData, MarkedData} : SetData(ds)
    \/ \E condition \in CellConditions : AddCondition(condition)
    \/ ClearConditions
    \/ InvalidateCache
    \/ Apply

SpecMatch == Init /\ [][NextMatch]_vars

\* the places of the conditions apply() evaluates
ActiveConditions == {k \in 1..Len(conditions) : conditions[k].active /\ conditions[k].column # ""}

\* C20: when apply() computes its result from the conditions alone (empty
\* cache, no search query), a row with no value in the column of an active
\* condition is in the result only if that condition's operator is isEmpty; a
\* row with no value in the column of any active condition is in the result
\* exactly when all their operators are isEmpty.  So on a missing cell
\* matchCondition is true for isEmpty and false for every other operator,
\* notEquals, notContains, notInList and isNotEmpty included.
MissingCellMatchesOnlyIsEmpty ==
    [][(last'.op = "apply" /\ filteredData.isNull /\ searchQuery = "" /\ ActiveConditions # {}) =>
          \A i \in 1..Len(data) :
            \E found \in {\E j \in 1..Len(last'.result.indices) : last'.result.indices[j] = i - 1},
               missing \in {{k \in ActiveConditions :
                                Cell(data[i], conditions[k].column) = UNDEFINED}} :
                /\ (\E k \in missing : conditions[k].operator # "isEmpty") => ~found
                /\ (missing = ActiveConditions) =>
                        (found <=> \A k \in missing : conditions[k].operator = "isEmpty")]_vars

\* apply() has just left out every row of a sheet without the column, under notInList
MissingCellMatchesOnlyIsEmptyWitness ==
    /\ last.op = "apply" /\ last.result.indices = <<>>
    /\ Len(data) > 0 /\ \A i \in 1..Len(data) : Cell(data[i], "SMS_Batch") = UNDEFINED
    /\ searchQuery = ""
    /\ Len(conditions) = 1 /\ conditions[1].operator = "notInList" /\ conditions[1].value = Text("")

-----------------------------------------------------------------------------
(* Operators outside the vocabulary *)

\* condition objects whose operator getOperators() does not list, on a column
\* every sheet has and on one a sheet may lack
UnknownConditions ==
    {[id |-> Id(0, 5), column |-> column, operator |-> operator, value |-> value,
      active |-> TRUE] : column \in {"Status", "SMS_Batch"}, operator \in {"between", "like", ""},
                         value \in {Text(""), Text("1")}}

NextUnknown ==
    \/ \E ds \in {BareData, MarkedData} : SetData(ds)
    \/ \E condition \in UnknownConditions : AddCondition(condition)
    \/ ClearConditions
    \/ InvalidateCache
    \/ Apply

SpecUnknown == Init /\ [][NextUnknown]_vars

\* C21: when apply() computes its result from the conditions alone (empty
\* cache, no search query) and no active condition has an operator of the
\* vocabulary, every row is in the result, in Row Store order, whatever its cell
\* in the conditions' columns holds and also when it has no such cell.
UnknownOperatorMatchesAll ==
    [][(/\ last'.op = "apply" /\ filteredData.isNull /\ searchQuery = ""
        /\ \A k \in ActiveConditions : conditions[k].operator \notin Operators) =>
          last'.result.indices = [i \in 1..Len(data) |-> i - 1]]_vars

-----------------------------------------------------------------------------
(* Lists as condition values *)

\* inList and notInList conditions on a column every sheet has and on one a
\* sheet may lack; the value is no list, or the same entries as an array and as
\* a comma-separated string
ListConditions ==
    {[id |-> Id(0, 5), column |-> column, operator |-> operator, value |-> value,
      active |-> TRUE] :
        column \in {"Status", "SMS_Batch"}, operator \in {"inList", "notInList"},
        value \in {Text(""), List(<<>>), List(<<"COMPLETE", "done">>), Text("COMPLETE,done"),
                   List(<<"1">>), Text("1")}}

NextList ==
    \/ \E ds \in {BareData, MarkedData} : SetData(ds)
    \/ \E condition \in ListConditions : AddCondition(condition)
    \/ ClearConditions
    \/ InvalidateCache
    \/ Apply

SpecList == Init /\ [][NextList]_vars

\* the entries of a list given as an array or as a comma-separated string
Entries(value) ==
    IF value.isArray THEN value.list ELSE IF value.s = "" THEN <<>> ELSE split(value.s, "")

\* a cell is in the list: its case-folded string is a case-folded entry
Listed(cell, entries) ==
    \E e \in 1..Len(entries) : toLowerCase(entries[e]) = toLowerCase(StringOf(cell))

\* C22: when apply() computes its result (empty cache, no search query) from
\* inList conditions and from notInList conditions with an empty list, the rows
\* in the result are those whose case-folded cell string is a case-folded entry
\* of every inList condition, the list being the entries of the array or of the
\* comma-separated string.  So an empty array or an empty string gives inList
\* false on every row and notInList true on every row, and the two forms of
\* one list give the same result.
ListMembership ==
    [][(/\ last'.op = "apply" /\ filteredData.isNull /\ searchQuery = ""
        /\ \A k \in ActiveConditions :
                \/ conditions[k].operator = "inList"
                \/ conditions[k].operator = "notInList" /\ Entries(conditions[k].value) = <<>>) =>
          \A i \in 1..Len(data) :
            (\E j \in 1..Len(last'.result.indices) : last'.result.indices[j] = i - 1)
            <=> \A k \in ActiveConditions :
                    (conditions[k].operator = "inList")
                    => Listed(Cell(data[i], conditions[k].column), Entries(conditions[k].value))]_vars

-----------------------------------------------------------------------------
(* The Filtered View *)

\* a preset of two conditions loaded and edited, a search query set, and cells
\* edited, with apply() in between
NextApply ==
    \/ \E ds \in {BareData, MarkedData} : SetData(ds)
    \/ LoadPreset("unmarked")
    \/ \E id \in ConditionIds,
          e \in {<<"active", FALSE>>, <<"column", "">>, <<"operator", "isNotEmpty">>} :
            UpdateCondition(id, e[1], e[2])
    \/ \E query \in {"", " Par ", "0"} : SetSearchQuery(query)
    \/ UpdateCell(0, "Link", Str("x"))
    \/ UpdateCell(1, "Email_Batch", Num(3))
    \/ InvalidateCache
    \/ Apply

SpecApply == Init /\ [][NextApply]_vars

\* some cell of the row contains the query, letter case aside
SearchHit(row, query) ==
    \E k \in (DOMAIN row) \ {"_rowIndex"} :
        NonEmpty(row[k]) /\ includes(toLowerCase(StringOf(row[k])), toLowerCase(query))

\* C23: when apply() recomputes (empty cache), its result holds, in Row Store
\* order, exactly the rows for which the search query is empty or is contained
\* in some cell, letter case aside, and which satisfy every condition that is
\* active and has a column; the conditions that are inactive or have no column
\* play no part.
ApplySelectsMatchingRows ==
    [][(last'.op = "apply" /\ filteredData.isNull) =>
          \E Keep \in {{i \in 1..Len(data) :
                          /\ searchQuery = "" \/ SearchHit(data[i], searchQuery)
                          /\ \A k \in ActiveConditions : matchCondition(data[i], conditions[k])}} :
            /\ last'.result.indices = filterSeq([i \in 1..Len(data) |-> i - 1], Keep, 1)
            /\ last'.result.data = filterSeq(data, Keep, 1)]_vars

-----------------------------------------------------------------------------
(* Letter case *)

StringOperators == {"equals", "notEquals", "contains", "notContains", "startsWith", "endsWith"}

\* conditions of the string operators on the Status column, their values in
\* several letter cases
CaseConditions ==
    {[id |-> Id(0, 5), column |-> "Status", operator |-> operator, value |-> Text(value),
      active |-> TRUE] :
        operator \in StringOperators, value \in {"Complete", "partial", "COMP", "Lete"}}

NextCase ==
    \/ \E ds \in {BareData, MarkedData} : SetData(ds)
    \/ \E condition \in CaseConditions : AddCondition(condition)
    \/ \E value \in {Str("PARTIAL"), Str("Incomplete")} : UpdateCell(1, "Status", value)
    \/ ClearConditions
    \/ InvalidateCache
    \/ Apply

SpecCase == Init /\ [][NextCase]_vars

\* s in upper case or in lower case
Fold(s, upper) == IF upper THEN toUpperCase(s) ELSE toLowerCase(s)

\* the conditions with their values in one letter case
FoldValues(conds, upper) ==
    [k \in 1..Len(conds) |->
        [conds[k] EXCEPT !.value = Text(Fold(valueString(conds[k].value), upper))]]

\* the rows with their text cells in one letter case
FoldCells(rows, upper) ==
    [i \in 1..Len(rows) |->
        [k \in DOMAIN rows[i] |->
            IF rows[i][k].t = "str" THEN Str(Fold(rows[i][k].s, upper)) ELSE rows[i][k]]]

\* C24: when apply() computes its result from conditions of the string
\* operators (equals, notEquals, contains, notContains, startsWith, endsWith;
\* empty cache, no search query), it selects the same rows as with every
\* condition value put in upper case or in lower case, and as with every text
\* cell put in upper case or in lower case: letter case never changes the
\* outcome.
StringOperatorsIgnoreCase ==
    [][(/\ last'.op = "apply" /\ filteredData.isNull /\ searchQuery = ""
        /\ \A k \in ActiveConditions : conditions[k].operator \in StringOperators) =>
          \A upper \in BOOLEAN :
            /\ last'.result.indices =
                    matching([FE EXCEPT !.conditions = FoldValues(conditions, upper)], data)
            /\ last'.result.indices = matching(FE, FoldCells(data, upper))]_vars

\* Scenario C: equals "Complete" has just selected rows 0 and 2 of Complete, Partial, complete
StringOperatorsIgnoreCaseWitness ==
    /\ last.op = "apply" /\ searchQuery = ""
    /\ Len(conditions) = 1 /\ conditions[1].operator = "equals"
    /\ conditions[1].value = Text("Complete") /\ conditions[1].active
    /\ Len(data) >= 3
    /\ \A i \in 1..3 : Cell(data[i], "Status") = Str(StatusValues[i])
    /\ Len(last.result.indices) >= 2 /\ SubSeq(last.result.indices, 1, 2) = <<0, 2>>

-----------------------------------------------------------------------------
(* Column references *)

\* the references handed to findColumn: header names, letter codes within
\* and beyond the header count, and strings that are neither
ColumnReferences ==
    {"", "Status", "SMS_Batch", "Note", "A", "b", "E", "G", "AA", "ZZ", "Nope", "Q 1",
     "STATUS", "sms batch"}

\* DataManager.findColumn(colRef); `last` keeps the reference and what was returned
FindColumn(colRef) ==
    /\ last' = [Did("findColumn", findColumn(headers, colRef) # "") EXCEPT
                    !.after = findColumn(headers, colRef), !.saved = <<colRef>>]
    /\ UNCHANGED <<dmVars, feVars, config>>

\* references resolved against header sets of several lengths
NextFind ==
    \/ \E ds \in Datasets : SetData(ds)
    \/ AddColumn("Note")
    \/ \E colRef \in ColumnReferences : FindColumn(colRef)

SpecFind == Init /\ [][NextFind]_vars

\* the index a letter code of one or two letters denotes: A=0, ..., Z=25, AA=26, ...
LetterIndex(code) ==
    IF Len(code) = 1 THEN IndexIn(toUpperCase(code), Upper) - 1
    ELSE 26 * IndexIn(toUpperCase(CharAt(code, 1)), Upper)
            + IndexIn(toUpperCase(CharAt(code, 2)), Upper) - 1

\* a one- or two-letter code whose index is within the headers hs
CodeWithin(colRef, hs) ==
    /\ Len(colRef) \in {1, 2} /\ IsLetters(colRef)
    /\ LetterIndex(colRef) < Len(hs)

\* C25: findColumn returns a header name that is in the Header Set as it is,
\* resolves a letter code whose index is within the header count to the header
\* at that index, and returns no column for a reference that is neither.
\* (No header of the sheets used is itself a letter code within the count.)
FindColumnResolvesBothForms ==
    (last.op = "findColumn") =>
        \E colRef \in {last.saved[1]} :
            /\ Has(headers, colRef) => (last.ok /\ last.after = colRef)
            /\ CodeWithin(colRef, headers) =>
                    (last.ok /\ last.after = headers[LetterIndex(colRef) + 1])
            /\ (~Has(headers, colRef) /\ ~CodeWithin(colRef, headers)) =>
                    (~last.ok /\ last.after = "")

-----------------------------------------------------------------------------
(* Batch subsets *)

\* data.filter(row => row[batchCol] === batchNumber)
getBatchRows(dm, batchCol, batchNumber) ==
    IF batchCol = "" THEN <<>>
    ELSE filterSeq(dm.data, {i \in 1..Len(dm.data) :
                                Cell(dm.data[i], batchCol) = Num(batchNumber)}, 1)

getSmsBatchRows(dm, cfg, batchNumber) ==
    getBatchRows(dm, findColumn(dm.headers, cfg.BATCH_COL), batchNumber)

getEmailBatchRows(dm, cfg, batchNumber) ==
    getBatchRows(dm, findColumn(dm.headers, cfg.EMAIL_BATCH_COL), batchNumber)

\* a saved project whose batch cells were stored as text
TextMarkedData ==
    [headers |-> FullData.headers,
     rows |-> [i \in 1..NumRows |->
                IF i = 1 THEN [FullRow(0) EXCEPT !["SMS_Batch"] = Str("1"),
                                                 !["SMS_Content"] = Str("Link: u0"),
                                                 !["Email_Batch"] = Str("2")]
                ELSE FullRow(i - 1)]]

\* getSmsBatchRows / getEmailBatchRows for a number of the known-batches;
\* `last` keeps the number and the rows returned
GetBatchRows(type, batchNumber) ==
    /\ last' = [Did(IF type = "sms" THEN "getSmsBatchRows" ELSE "getEmailBatchRows", TRUE) EXCEPT
                    !.newBatch = batchNumber,
                    !.result = [data |-> IF type = "sms"
                                         THEN getSmsBatchRows(DM, config, batchNumber)
                                         ELSE getEmailBatchRows(DM, config, batchNumber),
                                indices |-> <<>>]]
    /\ UNCHANGED <<dmVars, feVars, config>>

\* sheets loaded and marked, and the known batches exported
NextRows ==
    \/ \E ds \in Datasets \cup {TextMarkedData} : SetData(ds)
    \/ MarkSms(1, NullIndices)
    \/ MarkEmail(2, NullIndices)
    \/ \E n \in smsBatches : GetBatchRows("sms", n)
    \/ \E n \in emailBatches : GetBatchRows("email", n)

SpecRows == Init /\ [][NextRows]_vars

\* the rows whose cell in column col denotes the number n, in Row Store order
RowsDenoting(rows, col, n) ==
    filterSeq(rows, {i \in 1..Len(rows) : parseInt(Cell(rows[i], col)) = Num(n)}, 1)

\* C26: the rows getSmsBatchRows(N) / getEmailBatchRows(N) returns for a
\* number N of the channel's known-batches are at least one, and are exactly
\* the rows whose batch cell denotes N, in Row Store order, whether N was
\* detected in loaded data or written by a mark.
KnownBatchHasItsRows ==
    (last.op \in {"getSmsBatchRows", "getEmailBatchRows"}) =>
        \E col \in {findColumn(headers, IF last.op = "getSmsBatchRows"
                                        THEN config.BATCH_COL ELSE config.EMAIL_BATCH_COL)} :
            /\ last.result.data # <<>>
            /\ last.result.data = RowsDenoting(data, col, last.newBatch)

-----------------------------------------------------------------------------
(* Marking under a filter *)

\* one sheet under one filter: marks, batch deletions, undo, redo and shuffles,
\* each followed by the rendering of the table
NextMarked ==
    \/ data = <<>> /\ SetData(FullData)
    \/ conditions = <<>> /\ AddCondition(StatusIsComplete)
    \/ Apply
    \/ \E type \in {"sms", "email"} : MarkBatch(type, 1)
    \/ \E n \in smsBatches : DeleteBatchAction("sms", n)
    \/ \E js \in {[i \in 1..(Len(data) - 1) |-> 0]} : Shuffle(js)
    \/ UndoAction
    \/ RedoAction

SpecMarked == Init /\ [][NextMarked]_vars

\* C27: when a filter is active, a successful markBatch gives its batch number
\* only to rows that the Filter Set selects in the Row Store as it is at the
\* call, whatever came before under the same filter (a mark, a batch deletion,
\* an undo or redo, a shuffle).
MarkStaysWithinFilter ==
    [][(last'.op \in MarkOps /\ last'.ok /\ hasActiveFilters(FE)) =>
          \E col \in {BatchColumnOf(last'.op, headers', config)},
             selected \in {matching(FE, data)} :
            \A i \in 1..Len(data) :
                (/\ Cell(data'[i], col) = Num(last'.newBatch)
                 /\ Cell(data[i], col) # Num(last'.newBatch))
                => \E j \in 1..Len(selected) : selected[j] = i - 1]_vars

-----------------------------------------------------------------------------
(* Fresh batch numbers *)

\* marks, batch deletions, undo and redo, and a batch cell edited by hand to
\* the number after the one the loaded sheet holds
NextFresh ==
    \/ \E ds \in CompleteDatasets : SetData(ds)
    \/ MarkSms(1, NullIndices)
    \/ MarkEmail(1, NullIndices)
    \/ MarkRemindSms(1, NullIndices)
    \/ \E n \in smsBatches : DeleteSms(n)
    \/ UpdateCell(0, config.BATCH_COL, Num(2))
    \/ Undo
    \/ Redo

SpecFresh == Init /\ [][NextFresh]_vars

\* C28: a successful mark takes a batch number that no row holds in the
\* channel's batch column at the call, so that after it the rows holding the
\* number are the rows it picked, as many as it reports.
NewBatchNeverMerges ==
    [][(last'.op \in MarkOps /\ last'.ok) =>
          \E col \in {BatchColumnOf(last'.op, headers', config)} :
            /\ \A i \in 1..Len(data) : Cell(data[i], col) # Num(last'.newBatch)
            /\ Cardinality({i \in 1..Len(data') : Cell(data'[i], col) = Num(last'.newBatch)})
                    = last'.picked]_vars

-----------------------------------------------------------------------------
(* Known batches after undo and redo *)

\* the positive integers the cells of column col denote
NumbersIn(rows, col) ==
    {parseInt(Cell(rows[i], col)).n :
        i \in {j \in 1..Len(rows) : /\ NonEmpty(Cell(rows[j], col))
                                    /\ parseInt(Cell(rows[j], col)).t = "num"
                                    /\ parseInt(Cell(rows[j], col)).n > 0}}

\* C29: after a successful undo() or redo() the sms and email known-batches
\* are the positive integers held in the channel's batch column of the rows
\* restored; and right after a successful sms or email mark that picked a row
\* is undone, the next batch number of the channel is the undone one.
UndoRefreshesKnownBatches ==
    [][/\ (last'.op \in {"undo", "redo"} /\ last'.ok) =>
            /\ smsBatches' = NumbersIn(data', BatchColumnOf("markSms", headers', config))
            /\ emailBatches' = NumbersIn(data', BatchColumnOf("markEmail", headers', config))
       /\ (last.op = "markSms" /\ last.ok /\ last.picked > 0 /\ last'.op = "undo") =>
            Max(smsBatches' \cup {0}) + 1 = last.newBatch
       /\ (last.op = "markEmail" /\ last.ok /\ last.picked > 0 /\ last'.op = "undo") =>
            Max(emailBatches' \cup {0}) + 1 = last.newBatch]_vars

-----------------------------------------------------------------------------
(* The two stacks together *)

\* C30: in every reachable state the undo stack and the redo stack hold
\* maxUndoSteps (50) snapshots at most between them, so that redo(), which
\* pushes on the undo stack without looking at the cap, never takes the undo
\* stack past it.
HistoryBounded ==
    /\ Len(undoStack) + Len(redoStack) <= maxUndoSteps
    /\ Len(undoStack) <= maxUndoSteps

\* C30's case: a redo() has just pushed the snapshot that fills the undo stack,
\* and the redo stack still holds another
HistoryBoundedWitness ==
    /\ last.op = "redo" /\ last.ok
    /\ Len(undoStack) = maxUndoSteps - 1
    /\ Len(redoStack) = 1

-----------------------------------------------------------------------------
(* Independent channels *)

\* the mark operation of the channel an operation works on
ChannelOf(op) ==
    IF op = "deleteSms" THEN "markSms"
    ELSE IF op = "deleteEmail" THEN "markEmail"
    ELSE op

\* marks and deletes on the four channels, on sheets with and without the
\* configured columns
NextChannels ==
    \/ \E ds \in Datasets : SetData(ds)
    \/ MarkSms(1, NullIndices)
    \/ MarkEmail(1, NullIndices)
    \/ MarkRemindSms(1, NullIndices)
    \/ MarkRemindEmail(1, NullIndices)
    \/ \E n \in smsBatches : DeleteSms(n)
    \/ \E n \in emailBatches : DeleteEmail(n)

SpecChannels == Init /\ [][NextChannels]_vars

\* C31: a successful mark or delete on one channel leaves every row's cell in
\* the batch column of each other channel as it was, leaves the known-batches
\* of the other channels as they were, and so leaves the next batch number of
\* the other channels as it was.
ChannelsIndependent ==
    [][(last'.op \in MarkOps \cup DeleteOps /\ last'.ok) =>
          /\ \A other \in MarkOps \ {ChannelOf(last'.op)} :
                /\ Len(data') = Len(data)
                /\ \A i \in 1..Len(data) :
                      SameCell(Cell(data'[i], BatchColumnOf(other, headers, config)),
                               Cell(data[i], BatchColumnOf(other, headers, config)))
          /\ ChannelOf(last'.op) # "markSms" => smsBatches' = smsBatches
          /\ ChannelOf(last'.op) # "markEmail" => emailBatches' = emailBatches]_vars

-----------------------------------------------------------------------------
(* A mark that picks nothing *)

\* the number the next mark of a channel takes, from the rows and the known
\* batches given
NextNumberOf(op, rows, hs, cfg, sms, email) ==
    IF op = "markSms" THEN Max(sms \cup {0}) + 1
    ELSE IF op = "markEmail" THEN Max(email \cup {0}) + 1
    ELSE Max(NumbersIn(rows, BatchColumnOf(op, hs, cfg)) \cup {0}) + 1

\* C32: a mark that picks no row succeeds without using up a batch number: the
\* cells of every row are as they were, the known-batches are as they were and
\* do not hold the number returned, the number the channel takes next is the
\* one returned, and a mark on the same channel right after it returns the
\* same newBatchNumber.
EmptyMarkKeepsNumber ==
    [][/\ (last'.op \in MarkOps /\ last'.ok /\ last'.picked = 0) =>
            /\ SameCells(data', data, {headers'[k] : k \in 1..Len(headers')} \cup {"_rowIndex"})
            /\ smsBatches' = smsBatches /\ emailBatches' = emailBatches
            /\ last'.op = "markSms" => last'.newBatch \notin smsBatches'
            /\ last'.op = "markEmail" => last'.newBatch \notin emailBatches'
            /\ NextNumberOf(last'.op, data', headers', config, smsBatches', emailBatches')
                    = last'.newBatch
       /\ (/\ last.op \in MarkOps /\ last.ok /\ last.picked = 0
           /\ last'.op = last.op /\ last'.ok) =>
                last'.newBatch = last.newBatch]_vars

\* C32's case: a mark on the email channel, every candidate row being in a
\* batch already, picked nothing and the known batches do not hold its number
EmptyMarkKeepsNumberWitness ==
    /\ last.op = "markEmail" /\ last.ok /\ last.picked = 0 /\ last.limit >= 1
    /\ emailBatches # {}
    /\ last.newBatch \notin emailBatches
    /\ \A i \in 1..Len(data) : NonEmpty(Cell(data[i], BatchColumnOf("markEmail", headers, config)))

-----------------------------------------------------------------------------
(* Headers and rows *)

\* C33: in every reachable state every header of the Header Set is a key of
\* every row, also once a column was added by addColumn or created by a mark
\* and the change was undone or redone.
HeadersAreRowKeys ==
    \A i \in 1..Len(data), k \in 1..Len(headers) : headers[k] \in DOMAIN data[i]

-----------------------------------------------------------------------------
(* Condition ids and presets *)

\* conditions index.js addFilterCondition may bring the Filter Set to
MaxIdConds == 2
\* the latest value of Date.now() while conditions are made, in ms
MaxIdClock == 1

RECURSIVE dashed(_, _)
\* s.replace(/\s+/g, '-'); inRun: the character before was white space
dashed(s, inRun) ==
    IF s = "" THEN ""
    ELSE IF CharAt(s, 1) = " "
         THEN (IF inRun THEN "" ELSE "-") \o dashed(SubSeq(s, 2, Len(s)), TRUE)
         ELSE CharAt(s, 1) \o dashed(SubSeq(s, 2, Len(s)), FALSE)

\* stored: localStorage.setItem did not throw
savePreset(fe, name, stored) ==
    IF name = "" THEN [ok |-> FALSE, fe |-> fe]
    ELSE [ok |-> stored,
          fe |-> [fe EXCEPT !.presets =
                    [key \in (DOMAIN fe.presets) \cup {dashed(toLowerCase(name), FALSE)} |->
                        IF key = dashed(toLowerCase(name), FALSE) THEN fe.conditions
                        ELSE fe.presets[key]]]]

\* a survey sheet of ten columns, one of them named A0
SurveyData ==
    [headers |-> <<"A0">> \o FullData.headers \o <<"Note", "Phone">>,
     rows |-> [i \in 1..NumRows |->
                [k \in (DOMAIN FullRow(i - 1)) \cup {"A0", "Note", "Phone"} |->
                    IF k \in DOMAIN FullRow(i - 1) THEN FullRow(i - 1)[k]
                    ELSE IF k = "A0" THEN (IF i = 1 THEN Str("yes") ELSE EMPTY)
                    ELSE IF k = "Phone" THEN (IF i = 2 THEN Str("555") ELSE EMPTY)
                    ELSE EMPTY]]]

\* Date.now() at a call: the time last read, or the next millisecond
Ticks == {now \in {clock, clock + 1} : now <= MaxIdClock}

\* the values Math.random() takes, in tenths
RandomValues == {1, 2}

\* index.js addFilterCondition
AddFilterConditionAt ==
    /\ Len(conditions) < MaxIdConds
    /\ \E now \in Ticks : SetFE(addCondition(FE, defaultCondition(now))) /\ clock' = now
    /\ UNCHANGED <<dmVars, config>>
    /\ last' = Did("addCondition", TRUE)

\* FilterEngine.loadPreset(key); `last` keeps the key and the conditions stored
\* under it
LoadPresetAt(key) ==
    /\ \E now \in Ticks :
        \E fracs \in [1..(IF key \in DOMAIN presets THEN Len(presets[key]) ELSE 0) -> RandomValues] :
            \E r \in {loadPreset(FE, headers, key, now, fracs)} :
                /\ SetFE(r.fe)
                /\ clock' = IF r.ok THEN now ELSE clock
                /\ last' = [Did("loadPreset", r.ok) EXCEPT
                                !.after = key,
                                !.saved = IF r.ok THEN presets[key] ELSE <<>>]
    /\ UNCHANGED <<dmVars, config>>

\* FilterEngine.savePreset(name); `last` keeps the key
SavePreset(name) ==
    /\ \E stored \in BOOLEAN :
        \E r \in {savePreset(FE, name, stored)} :
            /\ SetFE(r.fe)
            /\ last' = [Did("savePreset", r.ok) EXCEPT !.after = dashed(toLowerCase(name), FALSE)]
    /\ UNCHANGED <<dmVars, config, clock>>

\* conditions handed to addCondition: on a column chosen by name
PresetConditions ==
    {[id |-> Id(0, 5), column |-> column, operator |-> "isNotEmpty", value |-> Text(""),
      active |-> TRUE] : column \in {"Status", "A0", "Phone"}}

\* conditions made one after the other, by addFilterCondition and by loadPreset
NextIds ==
    \/ AddFilterConditionAt
    \/ LoadPresetAt("unmarked")
    \/ \E id \in ConditionIds : UpdateCondition(id, "active", FALSE)
    \/ \E id \in ConditionIds : RemoveCondition(id)
    \/ ClearConditions

SpecIds == Init /\ [][NextIds]_vars

\* no two conditions of a Filter Set with the same id
DistinctIds(conds) == \A i, j \in 1..Len(conds) : i # j => conds[i].id # conds[j].id

\* C34: after every addCondition and every loadPreset the ids of the Filter
\* Set are distinct; so an updateCondition on an id of the set changes one
\* condition and no other, and a removeCondition on an id of the set removes
\* exactly one condition.
ConditionIdsUnique ==
    [][/\ last'.op \in {"addCondition", "loadPreset"} => DistinctIds(conditions')
       /\ (last'.op = "updateCondition" /\ last'.ok) =>
            /\ Len(conditions') = Len(conditions)
            /\ Cardinality({i \in 1..Len(conditions) : conditions'[i] # conditions[i]}) <= 1
       /\ last'.op = "removeCondition" => Len(conditions') = Len(conditions) - 1]_vars

-----------------------------------------------------------------------------
(* Presets saved and loaded *)

\* the Filter Set built, switched off, saved and loaded, on two sheets
NextPresets ==
    \/ \E ds \in {FullData, SurveyData} : SetData(ds)
    \/ \E condition \in PresetConditions : AddCondition(condition)
    \/ \E id \in ConditionIds : UpdateCondition(id, "active", FALSE)
    \/ ClearConditions
    \/ \E name \in {"", "My  Set"} : SavePreset(name)
    \/ \E key \in {"unmarked", "my-set", "archived"} : LoadPresetAt(key)

SpecPresets == Init /\ [][NextPresets]_vars

\* C35: loadPreset of a stored key succeeds and replaces the Filter Set by one
\* condition per stored condition, in stored order, with the stored operator
\* and value; a stored column that is a letter code within the header count
\* becomes the header at that index, any other stored column that is a header
\* of the Header Set stays that header; the cache is emptied.  loadPreset of
\* an unknown key returns false and leaves the conditions as they were.
LoadPresetResolves ==
    [][last'.op = "loadPreset" =>
          IF last'.after \in DOMAIN presets
          THEN \E stored \in {presets[last'.after]} :
                /\ last'.ok
                /\ Len(conditions') = Len(stored)
                /\ \A k \in 1..Len(stored) :
                      /\ conditions'[k].operator = stored[k].operator
                      /\ conditions'[k].value = stored[k].value
                      /\ CodeWithin(stored[k].column, headers) =>
                            conditions'[k].column = headers[LetterIndex(stored[k].column) + 1]
                      /\ (~CodeWithin(stored[k].column, headers) /\ Has(headers, stored[k].column)) =>
                            conditions'[k].column = stored[k].column
                /\ filteredData'.isNull /\ filteredIndices'.isNull
          ELSE ~last'.ok /\ conditions' = conditions]_vars

\* two Filter Sets that agree, condition by condition, on column, operator,
\* value and active flag
SameFilterSet(a, b) ==
    /\ Len(a) = Len(b)
    /\ \A k \in 1..Len(a) :
          /\ a[k].column = b[k].column /\ a[k].operator = b[k].operator
          /\ a[k].value = b[k].value /\ a[k].active = b[k].active

\* C36: a loadPreset that comes right after a successful savePreset of the
\* same key gives a Filter Set with the columns, operators, values and active
\* flags of the conditions saved, which selects the rows they select (the
\* columns saved being names that denote no column of the sheet by position).
SaveLoadRoundTrip ==
    [][(/\ last.op = "savePreset" /\ last.ok
        /\ last'.op = "loadPreset" /\ last'.after = last.after
        /\ \A k \in 1..Len(conditions) :
                colToIndex(conditions[k].column) \notin 0..(Len(headers) - 1)) =>
            /\ last'.ok
            /\ SameFilterSet(conditions', conditions)
            /\ matching([conditions |-> conditions', searchQuery |-> searchQuery'], data')
                    = matching([conditions |-> conditions, searchQuery |-> searchQuery], data)]_vars

-----------------------------------------------------------------------------
(* Letters and indices *)

\* the largest index converted: ZZ is 701, AAA is 702
MaxIndex == 730

\* column codes of one, two and three letters, in both cases
LetterCodes ==
    {CharAt(Upper, i) : i \in 1..26} \cup {CharAt(Lower, i) : i \in 1..26}
        \cup {a \o b : a \in {"A", "B", "Z", "a", "z"}, b \in {"A", "M", "Z", "a", "y"}}
        \cup {"AAA", "AAB", "abc", " AB "}

\* ConfigManager.colToIndex(col), and indexToCol of what it gives
ColToIndex(col) ==
    /\ last' = [Did("colToIndex", TRUE) EXCEPT
                    !.saved = <<col>>, !.limit = colToIndex(col),
                    !.after = indexToCol(colToIndex(col))]
    /\ UNCHANGED <<dmVars, feVars, config>>

\* ConfigManager.indexToCol(index), and colToIndex of what it gives
IndexToCol(index) ==
    /\ last' = [Did("indexToCol", TRUE) EXCEPT
                    !.limit = index, !.after = indexToCol(index),
                    !.picked = colToIndex(indexToCol(index))]
    /\ UNCHANGED <<dmVars, feVars, config>>

NextLetters ==
    \/ \E col \in LetterCodes : ColToIndex(col)
    \/ \E index \in 0..MaxIndex : IndexToCol(index)

SpecLetters == Init /\ [][NextLetters]_vars

RECURSIVE CodeNumber(_)
\* the number a letter code writes in the numeration A = 1, ..., Z = 26,
\* AA = 27, ...
CodeNumber(code) ==
    IF code = "" THEN 0
    ELSE 26 * CodeNumber(SubSeq(code, 1, Len(code) - 1))
            + IndexIn(Fold(CharAt(code, Len(code)), TRUE), Upper)

\* C37: colToIndex gives 0 for A, 25 for Z and 26 for AA, and for every letter
\* code the index its letters denote; indexToCol of that index is the code in
\* upper case; and for every index i >= 0, indexToCol(i) is a letter code whose
\* colToIndex is i.
LetterIndexBijection ==
    /\ last.op = "colToIndex" =>
            \E col \in {trim(last.saved[1])} :
                /\ last.limit = CodeNumber(col) - 1
                /\ last.after = Fold(col, TRUE)
                /\ col = "A" => last.limit = 0
                /\ col = "Z" => last.limit = 25
                /\ col = "AA" => last.limit = 26
    /\ last.op = "indexToCol" =>
            /\ IsLetters(last.after) /\ last.after = Fold(last.after, TRUE)
            /\ last.picked = last.limit

\* C37's case: the code aa was converted to 26 and back to AA
LetterIndexBijectionWitness ==
    /\ last.op = "colToIndex" /\ last.saved = <<"aa">>
    /\ last.limit = 26 /\ last.after = "AA"

-----------------------------------------------------------------------------
(* The order of the rows *)

\* the rows in their order, each known by its Link cell, which no operation of
\* Spec writes
Order(rows) == [i \in 1..Len(rows) |-> Cell(rows[i], "Link")]

\* a row without its position marker
Unmarked(row) == [k \in (DOMAIN row) \ {"_rowIndex"} |-> row[k]]

\* how often the row (marker aside) occurs in rows
Occurrences(row, rows) == Cardinality({i \in 1..Len(rows) : Unmarked(rows[i]) = Unmarked(row)})

\* the operations that work on the rows in place
InPlaceOps == MarkOps \cup DeleteOps \cup {"updateCell", "updateRows", "addColumn"}

\* C38: the operations that work on the rows in place (marks, deletes, cell
\* and row updates, addColumn) leave the rows in their order; a shuffle pushes
\* one undo snapshot, which holds the rows as they were, leaves every row in
\* the Row Store as often as it was there, none added and none lost, and
\* gives each row its new position as marker; an undo() right after a shuffle
\* brings back the rows of that snapshot, in their order and with their
\* markers.
OnlyShuffleReorders ==
    [][/\ last'.op \in InPlaceOps => Order(data') = Order(data)
       /\ (last'.op = "shuffle" /\ last'.ok) =>
            /\ undoStack' = Append(undoStack, data)
            /\ Len(data') = Len(data)
            /\ \A i \in 1..Len(data) : Occurrences(data[i], data') = Occurrences(data[i], data)
            /\ \A i \in 1..Len(data') : Cell(data'[i], "_rowIndex") = Num(i - 1)
       /\ (last.op = "shuffle" /\ last.ok /\ last'.op = "undo") =>
            /\ last'.ok
            /\ data' = undoStack[Len(undoStack)]]_vars

\* C38's case: an undo() has just taken back a shuffle that had moved rows:
\* the rows it finds on the redo stack are in another order than the rows
\* restored, whose markers are their positions
OnlyShuffleReordersWitness ==
    /\ last.op = "undo" /\ last.ok /\ redoStack # <<>>
    /\ Order(redoStack[Len(redoStack)]) # Order(data)
    /\ \A i \in 1..Len(data) : Cell(data[i], "_rowIndex") = Num(i - 1)

====
